---- MODULE Spec2Model ----
(***************************************************************************)
(* Model of the `sound` crate: the feature geometry of segments, the       *)
(* GenAm accent table, the word parser builders::words::from_accent with   *)
(* its scanner split_word_desc, and the textual rendering Word::symbols.   *)
(*                                                                         *)
(* A Rust `char` is modelled as a string naming the code point ("t", "1",  *)
(* "U0361"), a Rust `String` as a sequence of chars, Option<T> as a        *)
(* sequence of length 0 (None) or 1 (Some).                                *)
(***************************************************************************)
EXTENDS Integers, Sequences, FiniteSets, TLC

(***************************************************************************)
(* Bounds of the model                                                     *)
(***************************************************************************)
\* longest word description drawn character by character
MaxLen == 4
\* most syllables in a word description drawn syllable by syllable
MaxSyls == 2
\* most syllables of a Word that is rendered
MaxWordSyls == 3
\* most phonemes of a collection that is compared
MaxPhons == 2
\* most builder functions given to SegmentBuilder
MaxBuilders == 2
\* longest word description parsed with any accent
MaxScan == 4

(***************************************************************************)
(* Characters                                                              *)
(***************************************************************************)
PrimaryMark   == "U02C8"   \* IPA primary stress mark
SecondaryMark == "U02CC"   \* IPA secondary stress mark
Dot           == "."
TieBar        == "U0361"   \* combining double inverted breve
RhoticHook    == "U02DE"   \* modifier letter rhotic hook
Schwa         == "U0259"
RSchwa        == "U025A"   \* schwa with hook (precomposed)
Upsilon       == "U028A"
Theta         == "U03B8"
Alpha         == "U0251"   \* open back unrounded vowel

StressDigits == {"1", "2", "3", "4"}
StressMarks  == {PrimaryMark, SecondaryMark, Dot}

Delimiters == StressMarks \cup StressDigits

\* characters a description drawn character by character is made of
Alphabet == {Dot, "1", TieBar, RhoticHook, "t", Schwa, "o", Upsilon}

\* what stands between two delimiters in a description drawn syllable by
\* syllable
Bodies ==
  {<<>>, <<"t", Schwa, "t">>, <<Schwa, RhoticHook>>,
   <<"t", "o", TieBar, Upsilon>>}

(***************************************************************************)
(* Option                                                                  *)
(***************************************************************************)
None == <<>>
Some(v) == <<v>>
is_some(o) == Len(o) = 1
is_none(o) == Len(o) = 0
unwrap(o) == o[1]
get_or_insert(o, d) == IF is_none(o) THEN d ELSE unwrap(o)

(***************************************************************************)
(* features.rs                                                             *)
(***************************************************************************)
Marked == "Marked"
Unmarked == "Unmarked"

LabialFeature_default == [round |-> None]
CoronalFeature_default == [anterior |-> None, distrib |-> None]
DorsalFeature_default == [high |-> None, low |-> None, back |-> None]
PharyngealFeature_default == [advanced_tongue_root |-> None]
LaryngealFeatures_default ==
  [spread_glottis |-> None, constricted_glottis |-> None, voice |-> None]
Place_default ==
  [labial |-> None, coronal |-> None, dorsal |-> None, pharyngeal |-> None]
AutosegmentalFeatures_default ==
  [nasal |-> None, lateral |-> None, rhotic |-> None, strident |-> None,
   continuant |-> None, place |-> None, laryngeal |-> None]

(***************************************************************************)
(* builders/mod.rs, builders/consonants.rs, builders/vowels.rs             *)
(***************************************************************************)
mk_base(sym) ==
  [root_features |-> [consonantal |-> Unmarked, sonorant |-> Unmarked,
                      syllabic |-> Unmarked],
   autosegmental_features |-> AutosegmentalFeatures_default,
   symbol |-> sym]

\* s with its place group replaced by pl
WithPlace(s, pl) ==
  [s EXCEPT !.autosegmental_features.place = Some(pl)]

PlaceOf(s) == get_or_insert(s.autosegmental_features.place, Place_default)

WithDorsal(s, d) == WithPlace(s, [PlaceOf(s) EXCEPT !.dorsal = Some(d)])

DorsalOf(s) == get_or_insert(PlaceOf(s).dorsal, DorsalFeature_default)

WithLaryngeal(s, l) ==
  [s EXCEPT !.autosegmental_features.laryngeal = Some(l)]

LaryngealOf(s) ==
  get_or_insert(s.autosegmental_features.laryngeal, LaryngealFeatures_default)

vd(s) == WithLaryngeal(s, [LaryngealOf(s) EXCEPT !.voice = Some(Marked)])

vl(s) == WithLaryngeal(s, [LaryngealOf(s) EXCEPT !.voice = Some(Unmarked)])

stop(s) ==
  [s EXCEPT !.root_features = [consonantal |-> Marked, sonorant |-> Unmarked,
                               syllabic |-> Unmarked],
            !.autosegmental_features.continuant = Some(Unmarked)]

alveolar(s) ==
  WithPlace(s, [PlaceOf(s) EXCEPT
                  !.coronal = Some([anterior |-> Some(Marked),
                                    distrib |-> Some(Unmarked)])])

back(s) == WithDorsal(s, [DorsalOf(s) EXCEPT !.back = Some(Marked)])

front(s) == WithDorsal(s, [DorsalOf(s) EXCEPT !.back = Some(Unmarked)])

high(s) ==
  WithDorsal(s, [DorsalOf(s) EXCEPT !.low = Some(Unmarked),
                                    !.high = Some(Marked)])

mid(s) ==
  WithDorsal(s, [DorsalOf(s) EXCEPT !.low = Some(Unmarked),
                                    !.high = Some(Unmarked)])

rounded(s) ==
  WithPlace(s, [PlaceOf(s) EXCEPT
     !.labial = Some([get_or_insert(PlaceOf(s).labial, LabialFeature_default)
                        EXCEPT !.round = Some(Marked)])])

tense(s) ==
  WithPlace(s, [PlaceOf(s) EXCEPT
     !.pharyngeal =
        Some([get_or_insert(PlaceOf(s).pharyngeal, PharyngealFeature_default)
                EXCEPT !.advanced_tongue_root = Some(Marked)])])

rhotic_v(s) == [s EXCEPT !.autosegmental_features.rhotic = Some(Marked)]

nasal(s) ==
  [s EXCEPT !.root_features = [consonantal |-> Marked, sonorant |-> Marked,
                               syllabic |-> Unmarked],
            !.autosegmental_features.continuant = Some(Unmarked),
            !.autosegmental_features.nasal = Some(Marked)]

fricative(s) ==
  [s EXCEPT !.root_features = [consonantal |-> Marked, sonorant |-> Unmarked,
                               syllabic |-> Unmarked],
            !.autosegmental_features.continuant = Some(Marked),
            !.autosegmental_features.strident = Some(Unmarked)]

glide(s) ==
  [s EXCEPT !.root_features = [consonantal |-> Unmarked, sonorant |-> Marked,
                               syllabic |-> Unmarked],
            !.autosegmental_features.continuant = Some(Marked)]

approximant(s) ==
  [s EXCEPT !.root_features = [consonantal |-> Marked, sonorant |-> Marked,
                               syllabic |-> Unmarked],
            !.autosegmental_features.continuant = Some(Marked)]

distrib(s) ==
  WithPlace(s, [PlaceOf(s) EXCEPT
     !.coronal =
        Some([get_or_insert(PlaceOf(s).coronal, CoronalFeature_default)
                EXCEPT !.distrib = Some(Marked)])])

lateral(s) == [s EXCEPT !.autosegmental_features.lateral = Some(Marked)]

dental(s) == alveolar(s)

velar(s) == WithDorsal(s, DorsalOf(s))

palatal(s) == velar(s)

low(s) ==
  WithDorsal(s, [DorsalOf(s) EXCEPT !.low = Some(Marked),
                                    !.high = Some(Unmarked)])

strident(s) == [s EXCEPT !.autosegmental_features.strident = Some(Marked)]

unrounded(s) ==
  WithPlace(s, [PlaceOf(s) EXCEPT
     !.labial = Some([get_or_insert(PlaceOf(s).labial, LabialFeature_default)
                        EXCEPT !.round = None])])

\* one builder function, named by b, applied to s
ApplyBuilder(b, s) ==
  CASE b = "vd" -> vd(s)
    [] b = "vl" -> vl(s)
    [] b = "stop" -> stop(s)
    [] b = "alveolar" -> alveolar(s)
    [] b = "back" -> back(s)
    [] b = "front" -> front(s)
    [] b = "high" -> high(s)
    [] b = "mid" -> mid(s)
    [] b = "rounded" -> rounded(s)
    [] b = "tense" -> tense(s)
    [] b = "rhotic_v" -> rhotic_v(s)
    [] b = "nasal" -> nasal(s)
    [] b = "fricative" -> fricative(s)
    [] b = "glide" -> glide(s)
    [] b = "approximant" -> approximant(s)
    [] b = "distrib" -> distrib(s)
    [] b = "lateral" -> lateral(s)
    [] b = "dental" -> dental(s)
    [] b = "velar" -> velar(s)
    [] b = "palatal" -> palatal(s)
    [] b = "low" -> low(s)
    [] b = "strident" -> strident(s)
    [] b = "unrounded" -> unrounded(s)

RECURSIVE ApplyBuilders_right_to_left(_, _)
\* the loop over the builders run from the last builder to the first
ApplyBuilders_right_to_left(builders, base) ==
  IF builders = <<>> THEN base
  ELSE ApplyBuilder(Head(builders),
                    ApplyBuilders_right_to_left(Tail(builders), base))

RECURSIVE ApplyBuilders(_, _)
\* for f in builders { f(&mut base) }
ApplyBuilders(builders, base) ==
  IF builders = <<>> THEN base
  ELSE ApplyBuilders(Tail(builders), ApplyBuilder(Head(builders), base))

\* SegmentBuilder::segment
segment(builders, sym) == ApplyBuilders(builders, mk_base(sym))

consonant(builders, sym) ==
  ApplyBuilders(builders,
                [mk_base(sym) EXCEPT !.root_features.consonantal = Marked])

vowel(builders, sym) ==
  ApplyBuilders(builders,
                [mk_base(sym) EXCEPT !.root_features.sonorant = Marked,
                                     !.root_features.syllabic = Marked])

(***************************************************************************)
(* phoneme.rs                                                              *)
(***************************************************************************)
Monosegment(s) == <<"Monosegment", s>>
Disegment(s1, s2) == <<"Disegment", s1, s2>>

\* Phoneme::symbol
symbol(p) ==
  IF p[1] = "Monosegment" THEN <<p[2].symbol>>
  ELSE <<p[2].symbol, TieBar, p[3].symbol>>

(***************************************************************************)
(* feature_classes.rs                                                      *)
(***************************************************************************)
syllabic_marked(seg) == seg.root_features.syllabic = Marked

is_vowel(p) ==
  IF p[1] = "Monosegment" THEN syllabic_marked(p[2])
  ELSE syllabic_marked(p[2]) \/ syllabic_marked(p[3])

\* Option::map_or(false, |x| x == v)
is_value(o, v) == is_some(o) /\ unwrap(o) = v

\* Option::and_then over the place group: place.dorsal.<field>
dorsal_field(seg, field) ==
  LET place == seg.autosegmental_features.place
  IN IF is_none(place) THEN None
     ELSE IF is_none(unwrap(place).dorsal) THEN None
          ELSE unwrap(unwrap(place).dorsal)[field]

voice_of(seg) ==
  LET laryn == seg.autosegmental_features.laryngeal
  IN IF is_none(laryn) THEN None ELSE unwrap(laryn).voice

semivowel_seg(seg) ==
  /\ seg.root_features.syllabic = Unmarked
  /\ seg.root_features.consonantal = Unmarked

voiced_seg(seg) == is_value(voice_of(seg), Marked)

\* stop_seg with an absent continuant read as Unmarked
stop_seg_absent_is_minus(seg) ==
  /\ seg.root_features.sonorant = Unmarked
  /\ ~is_value(seg.autosegmental_features.continuant, Marked)

stop_seg(seg) ==
  /\ seg.root_features.sonorant = Unmarked
  /\ is_value(seg.autosegmental_features.continuant, Unmarked)

fricative_seg(seg) ==
  /\ seg.root_features.sonorant = Unmarked
  /\ is_value(seg.autosegmental_features.continuant, Marked)

approximant_seg(seg) ==
  /\ seg.root_features.sonorant = Marked
  /\ seg.root_features.syllabic = Unmarked
  /\ is_value(seg.autosegmental_features.continuant, Marked)

nasal_seg(seg) == is_value(seg.autosegmental_features.nasal, Marked)

lateral_seg(seg) == is_value(seg.autosegmental_features.lateral, Marked)

high_vowel_seg(seg) ==
  /\ seg.root_features.syllabic = Marked
  /\ is_value(dorsal_field(seg, "high"), Marked)

low_vowel_seg(seg) ==
  /\ seg.root_features.syllabic = Marked
  /\ is_value(dorsal_field(seg, "low"), Marked)

mid_vowel_seg(seg) ==
  /\ seg.root_features.syllabic = Marked
  /\ is_value(dorsal_field(seg, "high"), Unmarked)
  /\ is_value(dorsal_field(seg, "low"), Unmarked)

\* the closure a classifier hands to any_segment, named by f, applied to seg
call_closure(f, seg) ==
  CASE f = "semivowel_seg" -> semivowel_seg(seg)
    [] f = "voiced_seg" -> voiced_seg(seg)
    [] f = "stop_seg" -> stop_seg(seg)
    [] f = "fricative_seg" -> fricative_seg(seg)
    [] f = "approximant_seg" -> approximant_seg(seg)
    [] f = "nasal_seg" -> nasal_seg(seg)
    [] f = "lateral_seg" -> lateral_seg(seg)
    [] f = "high_vowel_seg" -> high_vowel_seg(seg)
    [] f = "low_vowel_seg" -> low_vowel_seg(seg)
    [] f = "mid_vowel_seg" -> mid_vowel_seg(seg)

any_segment(p, f) ==
  IF p[1] = "Monosegment" THEN call_closure(f, p[2])
  ELSE call_closure(f, p[2]) \/ call_closure(f, p[3])

is_consonant(p) == ~is_vowel(p)

is_semivowel(p) == any_segment(p, "semivowel_seg")

is_voiced(p) == any_segment(p, "voiced_seg")

\* is_stop that looks at the first segment of a disegment only
is_stop_first_only(p) == stop_seg(p[2])

is_stop(p) == any_segment(p, "stop_seg")

is_fricative(p) == any_segment(p, "fricative_seg")

is_approximant(p) == any_segment(p, "approximant_seg")

\* is_affricate with the order of the two segments ignored
is_affricate_unordered(p) ==
  IF p[1] = "Monosegment" THEN FALSE
  ELSE \/ is_stop(Monosegment(p[2])) /\ is_fricative(Monosegment(p[3]))
       \/ is_stop(Monosegment(p[3])) /\ is_fricative(Monosegment(p[2]))

is_affricate(p) ==
  IF p[1] = "Monosegment" THEN FALSE
  ELSE is_stop(Monosegment(p[2])) /\ is_fricative(Monosegment(p[3]))

is_nasal(p) == any_segment(p, "nasal_seg")

is_lateral(p) == any_segment(p, "lateral_seg")

is_high_vowel(p) == any_segment(p, "high_vowel_seg")

is_low_vowel(p) == any_segment(p, "low_vowel_seg")

is_mid_vowel(p) == any_segment(p, "mid_vowel_seg")

(***************************************************************************)
(* accents/genam: the entries of SOUNDS whose keys can be written with the *)
(* characters of Alphabet                                                  *)
(***************************************************************************)
SOUNDS ==
  ( <<"t">> :> Monosegment(consonant(<<"vl", "alveolar", "stop">>, "t")) )
  @@ ( <<Schwa>> :> Monosegment(vowel(<<"mid", "front">>, Schwa)) )
  @@ ( <<Upsilon>> :>
         Monosegment(vowel(<<"high", "back", "rounded">>, Upsilon)) )
  @@ ( <<"o", TieBar, Upsilon>> :>
         Disegment(vowel(<<"mid", "back", "tense", "rounded">>, "o"),
                   vowel(<<"high", "back", "rounded">>, Upsilon)) )
  @@ ( <<Schwa, RhoticHook>> :>
         Monosegment(vowel(<<"mid", "front", "rhotic_v">>, RSchwa)) )

\* accents::genam::phoneme
phoneme(sym) == IF sym \in DOMAIN SOUNDS THEN Some(SOUNDS[sym]) ELSE None

(***************************************************************************)
(* stress.rs                                                               *)
(***************************************************************************)
Stress == {"ReducedStress", "Unstressed", "SecondaryStress", "Stressed"}

\* Stress::symbol
stress_symbol(s) ==
  CASE s = "SecondaryStress" -> Some(SecondaryMark)
    [] s = "Stressed" -> Some(PrimaryMark)
    [] OTHER -> None

(***************************************************************************)
(* syllable.rs                                                             *)
(***************************************************************************)
Syllable(on, nuc, co, st) ==
  [onset |-> on, nucleus |-> nuc, coda |-> co, stress |-> st]

\* Syllable::phonemes
syl_phonemes(syl) == syl.onset \o <<syl.nucleus>> \o syl.coda

RECURSIVE concat_symbols(_)
concat_symbols(ps) ==
  IF ps = <<>> THEN <<>> ELSE symbol(Head(ps)) \o concat_symbols(Tail(ps))

\* Syllable::symbols
syl_symbols(syl) == concat_symbols(syl_phonemes(syl))

(***************************************************************************)
(* word.rs                                                                 *)
(***************************************************************************)
RECURSIVE phonemes(_)
\* Word::phonemes
phonemes(w) ==
  IF w = <<>> THEN <<>> ELSE syl_phonemes(Head(w)) \o phonemes(Tail(w))

RECURSIVE symbols_rest_dot_only(_)
\* symbols_rest with '.' written before every later syllable
symbols_rest_dot_only(w) ==
  IF w = <<>> THEN <<>>
  ELSE <<Dot>> \o syl_symbols(Head(w)) \o symbols_rest_dot_only(Tail(w))

RECURSIVE symbols_rest(_)
\* the loop of Word::symbols over the syllables after the first
symbols_rest(w) ==
  IF w = <<>> THEN <<>>
  ELSE LET st == IF is_some(Head(w).stress) THEN unwrap(Head(w).stress)
                 ELSE "Unstressed"
           sy == stress_symbol(st)
           separator == IF is_some(sy) THEN unwrap(sy) ELSE Dot
       IN <<separator>> \o syl_symbols(Head(w)) \o symbols_rest(Tail(w))

\* Word::symbols
symbols(w) ==
  IF w = <<>> THEN <<>>
  ELSE LET first_syl == w[1]
           sy == IF is_some(first_syl.stress)
                 THEN stress_symbol(unwrap(first_syl.stress)) ELSE None
           separator == IF is_some(sy) THEN unwrap(sy) ELSE Dot
           syms == (IF separator # Dot THEN <<separator>> ELSE <<>>)
                     \o syl_symbols(first_syl)
       IN IF Len(w) = 1 THEN syms ELSE syms \o symbols_rest(Tail(w))

RECURSIVE stresses(_)
\* Word::stresses
stresses(w) ==
  IF w = <<>> THEN <<>>
  ELSE (IF is_some(Head(w).stress) THEN <<unwrap(Head(w).stress)>>
        ELSE <<>>) \o stresses(Tail(w))

(***************************************************************************)
(* feature_set.rs                                                          *)
(***************************************************************************)
\* binary_token with an absent feature given the Minus token
binary_token_absent_is_minus(o, name) ==
  IF is_value(o, Marked) THEN {"Plus" \o name} ELSE {"Minus" \o name}

\* a binary feature as its Plus or Minus token
binary_token(o, name) ==
  IF is_none(o) THEN {}
  ELSE IF unwrap(o) = Marked THEN {"Plus" \o name} ELSE {"Minus" \o name}

\* a unary feature as its token
unary_token(o, name) == IF is_value(o, Marked) THEN {name} ELSE {}

\* Option::and_then over the place group: place.<group>
place_group(seg, group) ==
  LET place == seg.autosegmental_features.place
  IN IF is_none(place) THEN None ELSE unwrap(place)[group]

segment_feature_set(seg) ==
  LET auto == seg.autosegmental_features
      labial == place_group(seg, "labial")
      coronal == place_group(seg, "coronal")
      dorsal == place_group(seg, "dorsal")
      pharyngeal == place_group(seg, "pharyngeal")
      laryngeal == auto.laryngeal
  IN binary_token(Some(seg.root_features.syllabic), "Syllabic")
     \cup binary_token(Some(seg.root_features.sonorant), "Sonorant")
     \cup binary_token(Some(seg.root_features.consonantal), "Consonantal")
     \cup (IF is_none(labial) THEN {}
           ELSE {"Labial"} \cup unary_token(unwrap(labial).round, "Round"))
     \cup (IF is_none(coronal) THEN {}
           ELSE {"Coronal"}
                \cup binary_token(unwrap(coronal).anterior, "Anterior")
                \cup binary_token(unwrap(coronal).distrib, "Distrib"))
     \cup (IF is_none(dorsal) THEN {}
           ELSE {"Dorsal"}
                \cup binary_token(unwrap(dorsal).high, "High")
                \cup binary_token(unwrap(dorsal).low, "Low")
                \cup binary_token(unwrap(dorsal).back, "Back"))
     \cup (IF is_none(pharyngeal) THEN {}
           ELSE {"Pharyngeal"}
                \cup binary_token(unwrap(pharyngeal).advanced_tongue_root,
                                  "AdvancedTongueRoot"))
     \cup binary_token(auto.continuant, "Continuant")
     \cup binary_token(auto.strident, "Strident")
     \cup unary_token(auto.nasal, "Nasal")
     \cup unary_token(auto.lateral, "Lateral")
     \cup unary_token(auto.rhotic, "Rhotic")
     \cup (IF is_none(laryngeal) THEN {}
           ELSE {"Laryngeal"}
                \cup unary_token(unwrap(laryngeal).spread_glottis,
                                 "SpreadGlottis")
                \cup unary_token(unwrap(laryngeal).constricted_glottis,
                                 "ConstrictedGlottis")
                \cup binary_token(unwrap(laryngeal).voice, "Voice"))

\* feature_set that never adds the DelRel token
feature_set_no_delrel(p) ==
  IF p[1] = "Monosegment" THEN segment_feature_set(p[2])
  ELSE segment_feature_set(p[2]) \cup segment_feature_set(p[3])

feature_set(p) ==
  IF p[1] = "Monosegment" THEN segment_feature_set(p[2])
  ELSE segment_feature_set(p[2]) \cup segment_feature_set(p[3])
       \cup (IF is_affricate(p) THEN {"DelRel"} ELSE {})

(***************************************************************************)
(* rhyme/approx.rs                                                         *)
(***************************************************************************)
RECURSIVE gather_features(_)
gather_features(ps) ==
  IF ps = <<>> THEN {}
  ELSE feature_set(Head(ps)) \cup gather_features(Tail(ps))

\* f64: the quotient of two small counts is a double that is fixed by the
\* fraction in lowest terms; 0.0 / 0.0 is NaN
NaN == <<"NaN">>

RECURSIVE gcd(_, _)
gcd(a, b) == IF b = 0 THEN a ELSE gcd(b, a % b)

f64_div(n, d) ==
  IF d = 0 THEN NaN ELSE <<n \div gcd(n, d), d \div gcd(n, d)>>

\* the == of f64: NaN is equal to nothing, itself included
f64_eq(x, y) == x # NaN /\ y # NaN /\ x = y

\* similarity with the features of the first collection as the denominator
similarity_over_first(s1, s2) ==
  LET fs1 == gather_features(s1)
      fs2 == gather_features(s2)
  IN f64_div(Cardinality(fs1 \cap fs2), Cardinality(fs1))

\* similarity with the shared features counted once for each collection
similarity_counts_twice(s1, s2) ==
  LET fs1 == gather_features(s1)
      fs2 == gather_features(s2)
  IN f64_div(Cardinality(fs1) + Cardinality(fs2), Cardinality(fs1 \cup fs2))

similarity(s1, s2) ==
  LET fs1 == gather_features(s1)
      fs2 == gather_features(s2)
      shared_features == Cardinality(fs1 \cap fs2)
      all_features == Cardinality(fs1 \cup fs2)
  IN f64_div(shared_features, all_features)

\* Syllable::rhyme
syl_rhyme(syl) == <<syl.nucleus>> \o syl.coda

rhyme(syl1, syl2) == similarity(syl_rhyme(syl1), syl_rhyme(syl2))

assonance(syl1, syl2) == similarity(<<syl1.nucleus>>, <<syl2.nucleus>>)

alliteration(syl1, syl2) == similarity(syl1.onset, syl2.onset)

(***************************************************************************)
(* builders/words.rs: state of one call of from_accent                     *)
(***************************************************************************)
VARIABLES
  word_desc,                \* the description being parsed
  pc,                       \* position in from_accent / split_word_desc
  symbol_iter,              \* number of chars the scan iterator has yielded
  syllables_as_symbols,     \* split_word_desc: syllables closed so far
  current_syllable,         \* split_word_desc: symbols of the open syllable
  syls_as_symbols,          \* from_accent: syllables the for loop has left
  multiple_syllables_flag,
  syls,                     \* from_accent: syllables built so far
  syl_as_symbols,           \* from_accent: symbols the inner loop has left
  stress,
  onset,
  nucleus_maybe,
  coda,
  result,                   \* what the call returned
  calls,                    \* keys the accent lookup was called with
  pass,                     \* 1: parse of the drawn description,
                            \* 2: parse of the rendering of the first Word
  first_word,               \* the Word of pass 1, once rendered
  accent,                   \* the accent lookup from_accent was given
  fn_name,                  \* the library function a caller has applied
  fn_args,                  \* the arguments it was applied to
  fn_ret                    \* what it returned

vars == <<word_desc, pc, symbol_iter, syllables_as_symbols, current_syllable,
          syls_as_symbols, multiple_syllables_flag, syls, syl_as_symbols,
          stress, onset, nucleus_maybe, coda, result, calls, pass,
          first_word, accent, fn_name, fn_args, fn_ret>>

split_vars == <<symbol_iter, syllables_as_symbols, current_syllable>>
syl_vars == <<syl_as_symbols, stress, onset, nucleus_maybe, coda>>
fn_vars == <<fn_name, fn_args, fn_ret>>

NoResult == [tag |-> "None", word |-> <<>>, kind |-> "", reason |-> "",
             args |-> <<>>]
Ok(w) == [tag |-> "Ok", word |-> w, kind |-> "", reason |-> "",
          args |-> <<>>]
\* WordConstructorError::new("kind: reason"), args the formatted values
Err(k, r, a) == [tag |-> "Err", word |-> <<>>, kind |-> k, reason |-> r,
                 args |-> a]

RECURSIVE SeqsUpTo(_)
\* all descriptions of at most n characters of Alphabet
SeqsUpTo(n) ==
  IF n = 0 THEN {<<>>}
  ELSE LET shorter == SeqsUpTo(n - 1)
       IN shorter \cup {Append(s, c) : s \in {t \in shorter : Len(t) = n - 1},
                                        c \in Alphabet}

RECURSIVE SylSeqs(_)
\* all descriptions of exactly n syllables: a body of Bodies after each
\* delimiter, the first delimiter optional
SylSeqs(n) ==
  IF n = 0 THEN {<<>>}
  ELSE IF n = 1
       THEN {d \o b : d \in {<<>>} \cup {<<c>> : c \in Delimiters},
                      b \in Bodies}
       ELSE {s \o <<c>> \o b : s \in SylSeqs(n - 1), c \in Delimiters,
                               b \in Bodies}

\* the word descriptions given to from_accent
Descriptions ==
  SeqsUpTo(MaxLen) \cup UNION {SylSeqs(n) : n \in 0..MaxSyls}

\* the locals of a call that has just been entered
Entered ==
  /\ pc = "split_first"
  /\ symbol_iter = 0
  /\ syllables_as_symbols = <<>>
  /\ current_syllable = <<>>
  /\ syls_as_symbols = <<>>
  /\ multiple_syllables_flag = FALSE
  /\ syls = <<>>
  /\ syl_as_symbols = <<>>
  /\ stress = "Unstressed"
  /\ onset = <<>>
  /\ nucleus_maybe = None
  /\ coda = <<>>
  /\ result = NoResult
  /\ calls = <<>>

\* no library function has been applied
NotCalled ==
  /\ fn_name = "none"
  /\ fn_ret = <<>>

Init ==
  /\ word_desc \in Descriptions
  /\ accent = "genam"
  /\ pass = 1
  /\ first_word = <<>>
  /\ Entered
  /\ fn_args = <<>>
  /\ NotCalled

\* a caller's accent that resolves every key: two characters joined by the
\* tie-bar to a disegment, any other key to the monosegment of its first
\* character; the segments of three characters are vowels
caller_accent(sym) ==
  LET seg(c) == IF c \in {Schwa, Upsilon, "o"} THEN vowel(<<>>, c)
                ELSE consonant(<<>>, c)
  IN IF Len(sym) = 3 /\ sym[2] = TieBar
     THEN Some(Disegment(seg(sym[1]), seg(sym[3])))
     ELSE Some(Monosegment(seg(sym[1])))

\* the accent lookups from_accent is given: the table of accents::genam, a
\* caller's function that resolves every key, one that resolves none
Accents == {"genam", "caller", "empty"}

\* words.rs 62: accent(&symbol)
accent_call(sym) ==
  CASE accent = "genam" -> phoneme(sym)
    [] accent = "caller" -> caller_accent(sym)
    [] accent = "empty" -> None

\* words.rs 128-132 and 150-154: an IPA stress mark as a digit
normalize_stress(c) ==
  CASE c = PrimaryMark -> "1"
    [] c = SecondaryMark -> "2"
    [] OTHER -> "3"

\* SplitFirst with the empty description given the default stress symbol
SplitFirst_default_on_empty ==
  /\ pc = "split_first"
  /\ LET first_stress_symbol ==
           IF Len(word_desc) = 0 THEN "3"
           ELSE IF word_desc[1] \in StressDigits THEN word_desc[1]
                ELSE IF word_desc[1] \in StressMarks
                     THEN normalize_stress(word_desc[1])
                     ELSE "3"
     IN /\ symbol_iter' =
             IF Len(word_desc) > 0
                /\ word_desc[1] \in StressDigits \cup StressMarks
             THEN 1 ELSE 0
        /\ current_syllable' = <<(<<first_stress_symbol>>)>>
        /\ pc' = "split_loop"
        /\ UNCHANGED <<syllables_as_symbols, result>>
  /\ UNCHANGED <<word_desc, syls_as_symbols, multiple_syllables_flag, syls,
                 syl_vars, calls, pass, first_word, accent, fn_vars>>

\* words.rs 119-140: the stress symbol of the first syllable
SplitFirst ==
  /\ pc = "split_first"
  /\ IF Len(word_desc) = 0
     THEN /\ result' = Err("BadSylStructure", "empty string", <<>>)
          /\ pc' = "done"
          /\ UNCHANGED split_vars
     ELSE LET c == word_desc[1]
              first_stress_symbol ==
                IF c \in StressDigits THEN c
                ELSE IF c \in StressMarks THEN normalize_stress(c)
                     ELSE "3"
          IN /\ symbol_iter' =
                  IF c \in StressDigits \cup StressMarks THEN 1 ELSE 0
             /\ current_syllable' = <<(<<first_stress_symbol>>)>>
             /\ pc' = "split_loop"
             /\ UNCHANGED <<syllables_as_symbols, result>>
  /\ UNCHANGED <<word_desc, syls_as_symbols, multiple_syllables_flag, syls,
                 syl_vars, calls, pass, first_word, accent, fn_vars>>

\* what the match on the peeked character leaves behind
Combined(sym, n, e) == [symbol |-> sym, consumed |-> n, err |-> e]

\* multi_character with a tie-bar at the end of input kept as part of the
\* symbol
multi_character_lenient(desc, at, cur) ==
  LET peek == IF at < Len(desc) THEN Some(desc[at + 1]) ELSE None
  IN IF peek = Some(TieBar)
     THEN IF at + 2 <= Len(desc)
          THEN Combined(<<cur, TieBar, desc[at + 2]>>, at + 2, None)
          ELSE Combined(<<cur, TieBar>>, at + 1, None)
     ELSE IF peek = Some(RhoticHook)
          THEN Combined(<<cur, RhoticHook>>, at + 1, None)
          ELSE Combined(<<cur>>, at, None)

\* multi_character with the rhotic hook left for the next iteration: the
\* vowel and the hook are pushed as two symbols
multi_character_no_hook(desc, at, cur) ==
  LET peek == IF at < Len(desc) THEN Some(desc[at + 1]) ELSE None
  IN IF peek = Some(TieBar)
     THEN IF at + 2 <= Len(desc)
          THEN Combined(<<cur, TieBar, desc[at + 2]>>, at + 2, None)
          ELSE Combined(<<cur>>, at + 1,
                  Some(Err("BadWordDesc",
                           "connector u/0361 given without following symbol",
                           <<>>)))
     ELSE Combined(<<cur>>, at, None)

\* words.rs 164-181: the symbol that starts with the char at index at of
\* desc, read as cur, and the number of chars the iterator has yielded
multi_character(desc, at, cur) ==
  LET peek == IF at < Len(desc) THEN Some(desc[at + 1]) ELSE None
  IN IF peek = Some(TieBar)
     THEN IF at + 2 <= Len(desc)
          THEN Combined(<<cur, TieBar, desc[at + 2]>>, at + 2, None)
          ELSE Combined(<<cur>>, at + 1,
                  Some(Err("BadWordDesc",
                           "connector u/0361 given without following symbol",
                           <<>>)))
     ELSE IF peek = Some(RhoticHook)
          THEN Combined(<<cur, RhoticHook>>, at + 1, None)
          ELSE Combined(<<cur>>, at, None)

\* SplitLoop with the stress digits read as symbols: only the IPA stress
\* marks open a syllable
SplitLoop_marks_only ==
  /\ pc = "split_loop"
  /\ symbol_iter < Len(word_desc)
  /\ LET current == word_desc[symbol_iter + 1]
         at == symbol_iter + 1
         new_syllable_flag == current \in StressMarks
         normalized ==
           IF current \in StressMarks THEN normalize_stress(current)
           ELSE current
         closed == IF new_syllable_flag
                   THEN Append(syllables_as_symbols, current_syllable)
                   ELSE syllables_as_symbols
         open == IF new_syllable_flag THEN <<>> ELSE current_syllable
         combined == multi_character(word_desc, at, normalized)
     IN /\ syllables_as_symbols' = closed
        /\ symbol_iter' = combined.consumed
        /\ IF is_some(combined.err)
           THEN /\ result' = unwrap(combined.err)
                /\ pc' = "done"
                /\ current_syllable' = open
           ELSE /\ current_syllable' = Append(open, combined.symbol)
                /\ UNCHANGED <<pc, result>>
  /\ UNCHANGED <<word_desc, syls_as_symbols, multiple_syllables_flag, syls,
                 syl_vars, calls, pass, first_word, accent, fn_vars>>

\* SplitLoop with the scan iterator peeked at, not advanced: the character
\* read is not consumed
SplitLoop_no_advance ==
  /\ pc = "split_loop"
  /\ symbol_iter < Len(word_desc)
  /\ LET current == word_desc[symbol_iter + 1]
         at == symbol_iter + 1
         new_syllable_flag == current \in StressMarks \cup StressDigits
         normalized ==
           IF current \in StressMarks THEN normalize_stress(current)
           ELSE current
         closed == IF new_syllable_flag
                   THEN Append(syllables_as_symbols, current_syllable)
                   ELSE syllables_as_symbols
         open == IF new_syllable_flag THEN <<>> ELSE current_syllable
         combined == multi_character(word_desc, at, normalized)
     IN /\ syllables_as_symbols' = closed
        /\ symbol_iter' = combined.consumed - 1
        /\ IF is_some(combined.err)
           THEN /\ result' = unwrap(combined.err)
                /\ pc' = "done"
                /\ current_syllable' = open
           ELSE /\ current_syllable' = Append(open, combined.symbol)
                /\ UNCHANGED <<pc, result>>
  /\ UNCHANGED <<word_desc, syls_as_symbols, multiple_syllables_flag, syls,
                 syl_vars, calls, pass, first_word, accent, fn_vars>>

\* SplitLoop with a stress symbol that opens a syllable not pushed to it
SplitLoop_open_empty ==
  /\ pc = "split_loop"
  /\ symbol_iter < Len(word_desc)
  /\ LET current == word_desc[symbol_iter + 1]
         at == symbol_iter + 1
         new_syllable_flag == current \in StressMarks \cup StressDigits
         normalized ==
           IF current \in StressMarks THEN normalize_stress(current)
           ELSE current
         closed == IF new_syllable_flag
                   THEN Append(syllables_as_symbols, current_syllable)
                   ELSE syllables_as_symbols
         open == IF new_syllable_flag THEN <<>> ELSE current_syllable
         combined == multi_character(word_desc, at, normalized)
     IN /\ syllables_as_symbols' = closed
        /\ symbol_iter' = combined.consumed
        /\ IF is_some(combined.err)
           THEN /\ result' = unwrap(combined.err)
                /\ pc' = "done"
                /\ current_syllable' = open
           ELSE /\ current_syllable' =
                     IF new_syllable_flag THEN open
                     ELSE Append(open, combined.symbol)
                /\ UNCHANGED <<pc, result>>
  /\ UNCHANGED <<word_desc, syls_as_symbols, multiple_syllables_flag, syls,
                 syl_vars, calls, pass, first_word, accent, fn_vars>>

\* words.rs 142-184: one iteration of the scan loop
SplitLoop ==
  /\ pc = "split_loop"
  /\ symbol_iter < Len(word_desc)
  /\ LET current == word_desc[symbol_iter + 1]
         at == symbol_iter + 1
         new_syllable_flag == current \in StressMarks \cup StressDigits
         normalized ==
           IF current \in StressMarks THEN normalize_stress(current)
           ELSE current
         closed == IF new_syllable_flag
                   THEN Append(syllables_as_symbols, current_syllable)
                   ELSE syllables_as_symbols
         open == IF new_syllable_flag THEN <<>> ELSE current_syllable
         combined == multi_character(word_desc, at, normalized)
     IN /\ syllables_as_symbols' = closed
        /\ symbol_iter' = combined.consumed
        /\ IF is_some(combined.err)
           THEN /\ result' = unwrap(combined.err)
                /\ pc' = "done"
                /\ current_syllable' = open
           ELSE /\ current_syllable' = Append(open, combined.symbol)
                /\ UNCHANGED <<pc, result>>
  /\ UNCHANGED <<word_desc, syls_as_symbols, multiple_syllables_flag, syls,
                 syl_vars, calls, pass, first_word, accent, fn_vars>>

\* words.rs 186-189 and 36-41: the final syllable is pushed, split returns
SplitReturn ==
  /\ pc = "split_loop"
  /\ symbol_iter = Len(word_desc)
  /\ LET split == Append(syllables_as_symbols, current_syllable)
     IN /\ syllables_as_symbols' = split
        /\ syls_as_symbols' = split
        /\ multiple_syllables_flag' = (Len(split) > 1)
  /\ syls' = <<>>
  /\ pc' = "syl_start"
  /\ UNCHANGED <<word_desc, symbol_iter, current_syllable, syl_vars, result,
                 calls, pass, first_word, accent, fn_vars>>

\* words.rs 106: the for loop over the syllables is over
Return ==
  /\ pc = "syl_start"
  /\ syls_as_symbols = <<>>
  /\ result' = Ok(syls)
  /\ pc' = "done"
  /\ UNCHANGED <<word_desc, split_vars, syls_as_symbols,
                 multiple_syllables_flag, syls, syl_vars, calls, pass,
                 first_word, accent, fn_vars>>

\* stress_of with the levels of "3" and "4" exchanged
stress_of_swapped(stress_info) ==
  CASE stress_info = <<"1">> -> Some("Stressed")
    [] stress_info = <<"2">> -> Some("SecondaryStress")
    [] stress_info = <<"3">> -> Some("ReducedStress")
    [] stress_info = <<"4">> -> Some("Unstressed")
    [] OTHER -> None

\* words.rs 44-54: the stress level a normalized stress symbol stands for
stress_of(stress_info) ==
  CASE stress_info = <<"1">> -> Some("Stressed")
    [] stress_info = <<"2">> -> Some("SecondaryStress")
    [] stress_info = <<"3">> -> Some("Unstressed")
    [] stress_info = <<"4">> -> Some("ReducedStress")
    [] OTHER -> None

\* words.rs 42-59: next syllable; its first symbol is the stress information
SylStart ==
  /\ pc = "syl_start"
  /\ syls_as_symbols # <<>>
  /\ LET syl == Head(syls_as_symbols)
     IN IF syl = <<>>
        THEN \* remove(0) on an empty Vec panics
             /\ pc' = "panic"
             /\ UNCHANGED <<syl_vars, result>>
        ELSE IF is_some(stress_of(Head(syl)))
             THEN /\ stress' = unwrap(stress_of(Head(syl)))
                  /\ syl_as_symbols' = Tail(syl)
                  /\ onset' = <<>>
                  /\ nucleus_maybe' = None
                  /\ coda' = <<>>
                  /\ pc' = "sym_loop"
                  /\ UNCHANGED result
             ELSE /\ result' = Err("BadSylStructure",
                                   "no stress information for syllable",
                                   <<>>)
                  /\ pc' = "done"
                  /\ UNCHANGED syl_vars
  /\ syls_as_symbols' = Tail(syls_as_symbols)
  /\ UNCHANGED <<word_desc, split_vars, multiple_syllables_flag, syls, calls,
                 pass, first_word, accent, fn_vars>>

\* what one pass of the inner loop body leaves behind
Placed(on, nuc, co, e) ==
  [onset |-> on, nucleus_maybe |-> nuc, coda |-> co, err |-> e]

\* sym_step with every consonant pushed to the onset
sym_step_onset_only(on, nuc, co, sym) ==
  LET looked_up == accent_call(sym)
  IN IF is_none(looked_up)
     THEN Placed(on, nuc, co,
                 Some(Err("UnknownSymbol", "not recognized in accent",
                          <<sym>>)))
     ELSE LET p == unwrap(looked_up)
          IN IF is_vowel(p)
             THEN IF is_none(nuc)
                  THEN Placed(on, Some(p), co, None)
                  ELSE Placed(on, nuc, co,
                              Some(Err("BadSylStructure",
                                       "two phonemes in syl",
                                       <<symbol(unwrap(nuc)), sym>>)))
             ELSE Placed(Append(on, p), nuc, co, None)

\* sym_step with a second vowel replacing the nucleus
sym_step_overwrite_nucleus(on, nuc, co, sym) ==
  LET looked_up == accent_call(sym)
  IN IF is_none(looked_up)
     THEN Placed(on, nuc, co,
                 Some(Err("UnknownSymbol", "not recognized in accent",
                          <<sym>>)))
     ELSE LET p == unwrap(looked_up)
          IN IF is_vowel(p)
             THEN Placed(on, Some(p), co, None)
             ELSE IF is_none(nuc)
                  THEN Placed(Append(on, p), nuc, co, None)
                  ELSE Placed(on, nuc, Append(co, p), None)

\* sym_step with a second vowel pushed to the coda
sym_step_vowel_to_coda(on, nuc, co, sym) ==
  LET looked_up == accent_call(sym)
  IN IF is_none(looked_up)
     THEN Placed(on, nuc, co,
                 Some(Err("UnknownSymbol", "not recognized in accent",
                          <<sym>>)))
     ELSE LET p == unwrap(looked_up)
          IN IF is_vowel(p) /\ is_none(nuc)
             THEN Placed(on, Some(p), co, None)
             ELSE IF is_none(nuc)
                  THEN Placed(Append(on, p), nuc, co, None)
                  ELSE Placed(on, nuc, Append(co, p), None)

\* sym_step with a symbol the accent does not know skipped
sym_step_skip_unknown(on, nuc, co, sym) ==
  LET looked_up == accent_call(sym)
  IN IF is_none(looked_up)
     THEN Placed(on, nuc, co, None)
     ELSE LET p == unwrap(looked_up)
          IN IF is_vowel(p)
             THEN IF is_none(nuc)
                  THEN Placed(on, Some(p), co, None)
                  ELSE Placed(on, nuc, co,
                              Some(Err("BadSylStructure",
                                       "two phonemes in syl",
                                       <<symbol(unwrap(nuc)), sym>>)))
             ELSE IF is_none(nuc)
                  THEN Placed(Append(on, p), nuc, co, None)
                  ELSE Placed(on, nuc, Append(co, p), None)

\* words.rs 61-86: the body of the loop over the symbols of a syllable
sym_step(on, nuc, co, sym) ==
  LET looked_up == accent_call(sym)
  IN IF is_none(looked_up)
     THEN Placed(on, nuc, co,
                 Some(Err("UnknownSymbol", "not recognized in accent",
                          <<sym>>)))
     ELSE LET p == unwrap(looked_up)
          IN IF is_vowel(p)
             THEN IF is_none(nuc)
                  THEN Placed(on, Some(p), co, None)
                  ELSE Placed(on, nuc, co,
                              Some(Err("BadSylStructure",
                                       "two phonemes in syl",
                                       <<symbol(unwrap(nuc)), sym>>)))
             ELSE IF is_none(nuc)
                  THEN Placed(Append(on, p), nuc, co, None)
                  ELSE Placed(on, nuc, Append(co, p), None)

\* SymStep with every symbol of the syllable looked up before any is placed:
\* an unknown symbol is reported before a duplicate nucleus that stands
\* before it
SymStep_unknown_first ==
  /\ pc = "sym_loop"
  /\ syl_as_symbols # <<>>
  /\ LET unknown == {j \in 1..Len(syl_as_symbols) :
                       is_none(accent_call(syl_as_symbols[j]))}
         sym == IF unknown = {} THEN Head(syl_as_symbols)
                ELSE syl_as_symbols[CHOOSE j \in unknown :
                                      \A k \in unknown : j <= k]
         placed == sym_step(onset, nucleus_maybe, coda, sym)
     IN /\ calls' = Append(calls, sym)
        /\ syl_as_symbols' = Tail(syl_as_symbols)
        /\ onset' = placed.onset
        /\ nucleus_maybe' = placed.nucleus_maybe
        /\ coda' = placed.coda
        /\ IF is_some(placed.err)
           THEN /\ result' = unwrap(placed.err)
                /\ pc' = "done"
           ELSE UNCHANGED <<pc, result>>
  /\ UNCHANGED <<word_desc, split_vars, syls_as_symbols,
                 multiple_syllables_flag, syls, stress, pass, first_word,
                 accent, fn_vars>>

\* SymStep with the accent called a second time for the symbol it has just
\* resolved
SymStep_lookup_twice ==
  /\ pc = "sym_loop"
  /\ syl_as_symbols # <<>>
  /\ LET sym == Head(syl_as_symbols)
         placed == sym_step(onset, nucleus_maybe, coda, sym)
     IN /\ calls' = IF is_some(accent_call(sym)) THEN calls \o <<sym, sym>>
                    ELSE Append(calls, sym)
        /\ syl_as_symbols' = Tail(syl_as_symbols)
        /\ onset' = placed.onset
        /\ nucleus_maybe' = placed.nucleus_maybe
        /\ coda' = placed.coda
        /\ IF is_some(placed.err)
           THEN /\ result' = unwrap(placed.err)
                /\ pc' = "done"
           ELSE UNCHANGED <<pc, result>>
  /\ UNCHANGED <<word_desc, split_vars, syls_as_symbols,
                 multiple_syllables_flag, syls, stress, pass, first_word,
                 accent, fn_vars>>

\* words.rs 60-87: one symbol of the syllable is looked up and placed
SymStep ==
  /\ pc = "sym_loop"
  /\ syl_as_symbols # <<>>
  /\ LET sym == Head(syl_as_symbols)
         placed == sym_step(onset, nucleus_maybe, coda, sym)
     IN /\ calls' = Append(calls, sym)
        /\ syl_as_symbols' = Tail(syl_as_symbols)
        /\ onset' = placed.onset
        /\ nucleus_maybe' = placed.nucleus_maybe
        /\ coda' = placed.coda
        /\ IF is_some(placed.err)
           THEN /\ result' = unwrap(placed.err)
                /\ pc' = "done"
           ELSE UNCHANGED <<pc, result>>
  /\ UNCHANGED <<word_desc, split_vars, syls_as_symbols,
                 multiple_syllables_flag, syls, stress, pass, first_word,
                 accent, fn_vars>>

\* syllable_stress that keeps the stress of a lone syllable
syllable_stress_always(flag, st) == Some(st)

\* words.rs 98-102: the stress stored in a syllable
syllable_stress(flag, st) == IF flag THEN Some(st) ELSE None

\* SylEnd with a syllable that has no nucleus dropped
SylEnd_drop_empty ==
  /\ pc = "sym_loop"
  /\ syl_as_symbols = <<>>
  /\ syls' = IF is_none(nucleus_maybe) THEN syls
             ELSE Append(syls,
                    Syllable(onset, unwrap(nucleus_maybe), coda,
                             syllable_stress(multiple_syllables_flag,
                                             stress)))
  /\ pc' = "syl_start"
  /\ UNCHANGED result
  /\ UNCHANGED <<word_desc, split_vars, syls_as_symbols,
                 multiple_syllables_flag, syl_vars, calls, pass, first_word,
                 accent, fn_vars>>

\* words.rs 89-103: the syllable is closed and pushed
SylEnd ==
  /\ pc = "sym_loop"
  /\ syl_as_symbols = <<>>
  /\ IF is_none(nucleus_maybe)
     THEN /\ result' = Err("BadSylStructure", "no nucleus in syllable", <<>>)
          /\ pc' = "done"
          /\ UNCHANGED syls
     ELSE /\ syls' = Append(syls,
                 Syllable(onset, unwrap(nucleus_maybe), coda,
                          syllable_stress(multiple_syllables_flag, stress)))
          /\ pc' = "syl_start"
          /\ UNCHANGED result
  /\ UNCHANGED <<word_desc, split_vars, syls_as_symbols,
                 multiple_syllables_flag, syl_vars, calls, pass, first_word,
                 accent, fn_vars>>

\* word.rs 50-84 then words.rs 32: the Word of the first call is rendered
\* and the rendering is given to a second call of from_accent
RoundTrip ==
  /\ pc = "done"
  /\ pass = 1
  /\ result.tag = "Ok"
  /\ first_word' = result.word
  /\ word_desc' = symbols(result.word)
  /\ pass' = 2
  /\ pc' = "split_first"
  /\ symbol_iter' = 0
  /\ syllables_as_symbols' = <<>>
  /\ current_syllable' = <<>>
  /\ syls_as_symbols' = <<>>
  /\ multiple_syllables_flag' = FALSE
  /\ syls' = <<>>
  /\ syl_as_symbols' = <<>>
  /\ stress' = "Unstressed"
  /\ onset' = <<>>
  /\ nucleus_maybe' = None
  /\ coda' = <<>>
  /\ result' = NoResult
  /\ calls' = <<>>
  /\ UNCHANGED <<accent, fn_vars>>

Next ==
  \/ SplitFirst
  \/ SplitLoop
  \/ SplitReturn
  \/ SylStart
  \/ SymStep
  \/ SylEnd
  \/ Return
  \/ RoundTrip

Spec == Init /\ [][Next]_vars

\* one call of from_accent with any of the accents
LookupInit ==
  /\ word_desc \in SeqsUpTo(MaxScan)
  /\ accent \in Accents
  /\ pass = 1
  /\ first_word = <<>>
  /\ Entered
  /\ fn_args = <<>>
  /\ NotCalled

ParseNext ==
  \/ SplitFirst
  \/ SplitLoop
  \/ SplitReturn
  \/ SylStart
  \/ SymStep
  \/ SylEnd
  \/ Return

LookupSpec == LookupInit /\ [][ParseNext]_vars

\* from_accent is a sequential function: a step that can be taken is taken
LookupLive == LookupSpec /\ WF_vars(ParseNext)

(***************************************************************************)
(* Callers of the library functions: the arguments are drawn, then one      *)
(* function is applied to them                                             *)
(***************************************************************************)
parse_vars == <<word_desc, pc, split_vars, syls_as_symbols,
                multiple_syllables_flag, syls, syl_vars, result, calls, pass,
                first_word, accent>>

\* from_accent is not running
NoParse ==
  /\ word_desc = <<>>
  /\ pc = "idle"
  /\ symbol_iter = 0
  /\ syllables_as_symbols = <<>>
  /\ current_syllable = <<>>
  /\ syls_as_symbols = <<>>
  /\ multiple_syllables_flag = FALSE
  /\ syls = <<>>
  /\ syl_as_symbols = <<>>
  /\ stress = "Unstressed"
  /\ onset = <<>>
  /\ nucleus_maybe = None
  /\ coda = <<>>
  /\ result = NoResult
  /\ calls = <<>>
  /\ pass = 1
  /\ first_word = <<>>
  /\ accent = "genam"

\* the function named name returns ret
Returns(name, ret) ==
  /\ fn_name' = name
  /\ fn_ret' = ret
  /\ UNCHANGED <<fn_args, parse_vars>>

\* ---- word.rs ----------------------------------------------------------
\* the syllables a Word is made of: a struct literal may hold any stress
WordSyllables ==
  LET t == SOUNDS[<<"t">>]
  IN {Syllable(b[1], b[2], b[3], st) :
        b \in {<<(<<>>), SOUNDS[<<Schwa>>], <<>>>>,
               <<(<<t>>), SOUNDS[<<"o", TieBar, Upsilon>>], <<t>>>>},
        st \in {None} \cup {Some(s) : s \in Stress}}

\* a Word of at most MaxWordSyls syllables
WordInit ==
  /\ \E n \in 0..MaxWordSyls : fn_args \in [1..n -> WordSyllables]
  /\ NotCalled
  /\ NoParse

CallSymbols ==
  /\ fn_name = "none"
  /\ Returns("symbols", symbols(fn_args))

CallStresses ==
  /\ fn_name = "none"
  /\ Returns("stresses", stresses(fn_args))

WordNext ==
  \/ CallSymbols
  \/ CallStresses

WordSpec == WordInit /\ [][WordNext]_vars

\* ---- feature_classes.rs, feature_set.rs --------------------------------
\* segments of the genam table, one or more of each natural class
Segments ==
  { consonant(<<"vl", "alveolar", "stop">>, "t"),
    consonant(<<"vl", "dental", "distrib", "fricative">>, Theta),
    consonant(<<"vd", "alveolar", "nasal">>, "n"),
    consonant(<<"vd", "alveolar", "lateral", "distrib", "approximant">>,
              "l"),
    consonant(<<"vd", "palatal", "glide">>, "j"),
    vowel(<<"mid", "front">>, Schwa),
    vowel(<<"high", "back", "rounded">>, Upsilon),
    vowel(<<"low", "back">>, Alpha),
    vowel(<<"mid", "back", "tense", "rounded">>, "o") }

Phonemes ==
  {Monosegment(s) : s \in Segments}
    \cup {Disegment(a, b) : a \in Segments, b \in Segments}

\* every classifier of feature_classes.rs applied to p
classify(p) ==
  [is_vowel |-> is_vowel(p), is_consonant |-> is_consonant(p),
   is_semivowel |-> is_semivowel(p), is_voiced |-> is_voiced(p),
   is_stop |-> is_stop(p), is_fricative |-> is_fricative(p),
   is_approximant |-> is_approximant(p), is_affricate |-> is_affricate(p),
   is_nasal |-> is_nasal(p), is_lateral |-> is_lateral(p),
   is_high_vowel |-> is_high_vowel(p), is_low_vowel |-> is_low_vowel(p),
   is_mid_vowel |-> is_mid_vowel(p)]

\* a phoneme as the collection of its segments, each a monosegment
segments_of(p) ==
  IF p[1] = "Monosegment" THEN <<p>>
  ELSE <<Monosegment(p[2]), Monosegment(p[3])>>

ClassInit ==
  /\ fn_args \in Phonemes
  /\ NotCalled
  /\ NoParse

CallClassify ==
  /\ fn_name = "none"
  /\ Returns("classify", classify(fn_args))

CallFeatureSet ==
  /\ fn_name = "none"
  /\ Returns("feature_set", feature_set(fn_args))

\* a phoneme compared with the collection of its segments
CallSimilaritySegments ==
  /\ fn_name = "none"
  /\ Returns("similarity", similarity(<<fn_args>>, segments_of(fn_args)))

ClassNext ==
  \/ CallClassify
  \/ CallFeatureSet
  \/ CallSimilaritySegments

ClassSpec == ClassInit /\ [][ClassNext]_vars

\* a monosegment given to the classifiers and to feature_set: the type
\* Segment lets a caller set every field, so the root features, continuant,
\* the place group and the laryngeal group of a segment of the accent are
\* replaced by any of the values drawn here
SegInit ==
  /\ \E base \in Segments :
     \E root \in [consonantal : {Marked, Unmarked},
                  sonorant : {Marked, Unmarked},
                  syllabic : {Marked, Unmarked}] :
     \E cont \in {None, Some(Marked), Some(Unmarked)} :
     \E place \in {base.autosegmental_features.place, None,
                   Some(Place_default),
                   Some([labial |-> Some(LabialFeature_default),
                         coronal |-> Some(CoronalFeature_default),
                         dorsal |-> Some(DorsalFeature_default),
                         pharyngeal |-> Some(PharyngealFeature_default)]),
                   Some([labial |-> Some([round |-> Some(Marked)]),
                         coronal |-> Some([anterior |-> Some(Marked),
                                           distrib |-> Some(Unmarked)]),
                         dorsal |-> Some([high |-> Some(Unmarked),
                                          low |-> Some(Marked),
                                          back |-> None]),
                         pharyngeal |->
                           Some([advanced_tongue_root |->
                                   Some(Unmarked)])])} :
     \E laryngeal \in {base.autosegmental_features.laryngeal, None,
                       Some(LaryngealFeatures_default),
                       Some([spread_glottis |-> Some(Marked),
                             constricted_glottis |-> None,
                             voice |-> Some(Unmarked)]),
                       Some([spread_glottis |-> None,
                             constricted_glottis |-> Some(Marked),
                             voice |-> None])} :
       fn_args =
         Monosegment(
           [base EXCEPT !.root_features = root,
                        !.autosegmental_features.continuant = cont,
                        !.autosegmental_features.place = place,
                        !.autosegmental_features.laryngeal = laryngeal])
  /\ NotCalled
  /\ NoParse

SegSpec == SegInit /\ [][CallClassify \/ CallFeatureSet]_vars

\* ---- rhyme/approx.rs ---------------------------------------------------
SimPhonemes ==
  {SOUNDS[<<"t">>], SOUNDS[<<Schwa>>], SOUNDS[<<"o", TieBar, Upsilon>>],
   Disegment(consonant(<<"vl", "alveolar", "stop">>, "t"),
             consonant(<<"vl", "dental", "distrib", "fricative">>, Theta))}

RECURSIVE Collections(_)
\* the phoneme collections of at most n phonemes
Collections(n) ==
  IF n = 0 THEN {<<>>}
  ELSE LET shorter == Collections(n - 1)
       IN shorter \cup {Append(c, p) : c \in {d \in shorter : Len(d) = n - 1},
                                        p \in SimPhonemes}

SimSyllables ==
  LET t == SOUNDS[<<"t">>]
  IN {Syllable(on, nuc, co, st) :
        on \in {<<>>, <<t>>},
        nuc \in {SOUNDS[<<Schwa>>], SOUNDS[<<Upsilon>>],
                 SOUNDS[<<"o", TieBar, Upsilon>>]},
        co \in {<<>>, <<t>>}, st \in {None, Some("Stressed")}}

SimInit ==
  /\ \/ \E a \in Collections(MaxPhons), b \in Collections(MaxPhons) :
          fn_args = <<"phonemes", a, b>>
     \/ \E s1 \in SimSyllables, s2 \in SimSyllables :
          fn_args = <<"syllables", s1, s2>>
  /\ NotCalled
  /\ NoParse

CallSimilarity ==
  /\ fn_name = "none"
  /\ fn_args[1] = "phonemes"
  /\ Returns("similarity", similarity(fn_args[2], fn_args[3]))

CallRhyme ==
  /\ fn_name = "none"
  /\ fn_args[1] = "syllables"
  /\ Returns("rhyme", rhyme(fn_args[2], fn_args[3]))

CallAssonance ==
  /\ fn_name = "none"
  /\ fn_args[1] = "syllables"
  /\ Returns("assonance", assonance(fn_args[2], fn_args[3]))

CallAlliteration ==
  /\ fn_name = "none"
  /\ fn_args[1] = "syllables"
  /\ Returns("alliteration", alliteration(fn_args[2], fn_args[3]))

SimNext ==
  \/ CallSimilarity
  \/ CallRhyme
  \/ CallAssonance
  \/ CallAlliteration

SimSpec == SimInit /\ [][SimNext]_vars

\* ---- builders/mod.rs ---------------------------------------------------
\* a list of at most MaxBuilders builder functions of builders::consonants
\* and builders::vowels, among them every pair that writes one field with
\* different values, and a symbol
BuildInit ==
  /\ \E n \in 0..MaxBuilders :
       \E builders \in
            [1..n -> {"vd", "vl", "stop", "nasal", "fricative", "glide",
                      "strident", "distrib", "alveolar", "velar", "back",
                      "front", "high", "low", "rounded", "unrounded"}] :
         fn_args = <<builders, "p">>
  /\ NotCalled
  /\ NoParse

CallSegment ==
  /\ fn_name = "none"
  /\ Returns("segment", segment(fn_args[1], fn_args[2]))

CallConsonant ==
  /\ fn_name = "none"
  /\ Returns("consonant", consonant(fn_args[1], fn_args[2]))

CallVowel ==
  /\ fn_name = "none"
  /\ Returns("vowel", vowel(fn_args[1], fn_args[2]))

BuildNext ==
  \/ CallSegment
  \/ CallConsonant
  \/ CallVowel

BuildSpec == BuildInit /\ [][BuildNext]_vars

(***************************************************************************)
(* Vocabulary of the properties                                            *)
(***************************************************************************)
Done == pc = "done"
Accepted == pc = "done" /\ result.tag = "Ok"
Failed == pc = "done" /\ result.tag = "Err"

\* the symbol units of a scanned syllable: all but its stress symbol
UnitsOf(syl) == IF syl = <<>> THEN <<>> ELSE Tail(syl)

Known(unit) == is_some(phoneme(unit))

\* the phonemes the accent gives for a sequence of known units
Resolved(units) == [j \in 1..Len(units) |-> unwrap(phoneme(units[j]))]

\* the least index of a vowel in ps, 0 if there is none
FirstVowel(ps) ==
  IF \E j \in 1..Len(ps) : is_vowel(ps[j])
  THEN CHOOSE j \in 1..Len(ps) :
         is_vowel(ps[j]) /\ \A i \in 1..(j - 1) : ~is_vowel(ps[i])
  ELSE 0

C2_SingleSyllableNoStress ==
  (Accepted /\ Len(result.word) = 1) => result.word[1].stress = None

\* a one-syllable word whose description starts with the primary stress mark
C2_Witness ==
  /\ Accepted
  /\ pass = 1
  /\ Len(result.word) = 1
  /\ word_desc[1] = PrimaryMark

\* the stress level the notation gives a delimiter; "" stands for the missing
\* delimiter of a first syllable
LevelOf(d) ==
  CASE d \in {PrimaryMark, "1"} -> "Stressed"
    [] d \in {SecondaryMark, "2"} -> "SecondaryStress"
    [] d \in {Dot, "3", ""} -> "Unstressed"
    [] d = "4" -> "ReducedStress"

IsDelimiter(c) == c \in Delimiters

\* the delimiters of a description, with "" in front when it starts without
Openers(desc) ==
  (IF desc # <<>> /\ desc[1] \in Delimiters THEN <<>> ELSE <<"">>)
    \o SelectSeq(desc, IsDelimiter)

\* C3: in an accepted word of two or more syllables every syllable has stress
\* Some(level), the level of the delimiter that opened it
C3_StressFromDelimiter ==
  (Accepted /\ Len(result.word) >= 2) =>
    /\ Len(Openers(word_desc)) = Len(result.word)
    /\ \A i \in 1..Len(result.word) :
         result.word[i].stress = Some(LevelOf(Openers(word_desc)[i]))

\* a word that starts without a delimiter and goes on with reduced stress
C3_Witness ==
  /\ Accepted
  /\ pass = 1
  /\ Len(result.word) = 2
  /\ word_desc[1] \notin Delimiters
  /\ result.word[2].stress = Some("ReducedStress")

\* the syllables the scan has produced: those closed and, when the scan
\* stopped at a dangling tie-bar, the one still open
Scanned ==
  IF result.tag = "Err" /\ result.kind = "BadWordDesc"
  THEN Append(syllables_as_symbols, current_syllable)
  ELSE syllables_as_symbols

\* a unit the accent resolves to a vowel of one segment
MonoVowel(unit) ==
  /\ Known(unit)
  /\ unwrap(phoneme(unit))[1] = "Monosegment"
  /\ is_vowel(unwrap(phoneme(unit)))

\* some scanned syllable holds two non-disegment vowel symbols
TwoVowelsInSyllable ==
  \E i \in 1..Len(Scanned) :
    LET units == UnitsOf(Scanned[i])
    IN \E j, k \in 1..Len(units) :
         j < k /\ MonoVowel(units[j]) /\ MonoVowel(units[k])

\* every scanned symbol unit resolves in the accent
AllResolve ==
  \A i \in 1..Len(Scanned) :
    \A j \in 1..Len(UnitsOf(Scanned[i])) : Known(UnitsOf(Scanned[i])[j])

\* some scanned symbol unit does not resolve in the accent
HasUnknownUnit == ~AllResolve

RECURSIVE DanglesFrom(_, _)
\* reading symbol units from index at on, a unit is met whose first character
\* is followed by a tie-bar that ends the description
DanglesFrom(desc, at) ==
  IF at >= Len(desc) THEN FALSE
  ELSE IF desc[at + 1] = TieBar
       THEN IF at + 1 = Len(desc) THEN TRUE ELSE DanglesFrom(desc, at + 3)
       ELSE IF desc[at + 1] = RhoticHook THEN DanglesFrom(desc, at + 2)
            ELSE DanglesFrom(desc, at + 1)

\* the description ends in a tie-bar that directly follows the first
\* character of a symbol unit
ConnectorDangles(desc) ==
  /\ desc # <<>>
  /\ DanglesFrom(desc, IF desc[1] \in Delimiters THEN 2 ELSE 1)

\* C4 as stated: two non-disegment vowels in one syllable always give a
\* BadSylStructure error
C4_Original ==
  (Done /\ TwoVowelsInSyllable) =>
    (result.tag = "Err" /\ result.kind = "BadSylStructure")

\* C4: a description with two non-disegment vowels in one syllable yields no
\* Word; the error is BadSylStructure unless an earlier failure is reported:
\* BadWordDesc for a dangling tie-bar, UnknownSymbol for a symbol the lookup
\* did not resolve; it is BadSylStructure whenever all symbols resolve and no
\* tie-bar dangles
C4_TwoVowelsFail ==
  (Done /\ TwoVowelsInSyllable) =>
    /\ result.tag = "Err"
    /\ \/ result.kind = "BadSylStructure"
       \/ result.kind = "BadWordDesc" /\ ConnectorDangles(word_desc)
       \/ /\ result.kind = "UnknownSymbol"
          /\ calls # <<>>
          /\ ~Known(calls[Len(calls)])
    /\ (AllResolve /\ ~ConnectorDangles(word_desc)) =>
         result.kind = "BadSylStructure"

\* the second vowel of a syllable was looked up and rejected
C4_Witness ==
  /\ Done
  /\ TwoVowelsInSyllable
  /\ result.tag = "Err"
  /\ result.reason = "two phonemes in syl"
  /\ is_some(nucleus_maybe)

\* C5 as stated: a description with a symbol unit unknown to the accent
\* always gives an UnknownSymbol error
C5_Original ==
  (Done /\ HasUnknownUnit) =>
    (result.tag = "Err" /\ result.kind = "UnknownSymbol")

\* C5: a description with a symbol unit unknown to the accent yields no Word,
\* not even the syllables built so far; the error is UnknownSymbol exactly
\* when the lookup was called for such a unit, which ends the parse
C5_UnknownSymbolFails ==
  /\ (Done /\ HasUnknownUnit) =>
       /\ result.tag = "Err"
       /\ result.word = <<>>
  /\ Done =>
       ((result.tag = "Err" /\ result.kind = "UnknownSymbol")
          <=> (calls # <<>> /\ ~Known(calls[Len(calls)])))
  /\ \A j \in 1..(Len(calls) - 1) : Known(calls[j])

\* an unknown symbol was looked up after a syllable had been built
C5_Witness ==
  /\ Done
  /\ HasUnknownUnit
  /\ result.kind = "UnknownSymbol"
  /\ syls # <<>>

\* some syllable of the split has no unit that resolves to a vowel
SomeSyllableWithoutVowel ==
  \E i \in 1..Len(Scanned) :
    \A j \in 1..Len(UnitsOf(Scanned[i])) :
      LET unit == UnitsOf(Scanned[i])[j]
      IN ~(Known(unit) /\ is_vowel(unwrap(phoneme(unit))))

\* C6: when every symbol resolves and no tie-bar dangles, a syllable without
\* a vowel makes from_accent fail with a BadSylStructure error
C6_NoNucleusFails ==
  (Done /\ AllResolve /\ ~ConnectorDangles(word_desc)
     /\ SomeSyllableWithoutVowel) =>
    (result.tag = "Err" /\ result.kind = "BadSylStructure")

\* a trailing delimiter after a complete syllable
C6_Witness ==
  /\ Done
  /\ AllResolve
  /\ ~ConnectorDangles(word_desc)
  /\ Len(Scanned) >= 2
  /\ UnitsOf(Scanned[Len(Scanned)]) = <<>>
  /\ syls # <<>>
  /\ result.reason = "no nucleus in syllable"

\* C7 as stated: the empty description gives an error whose cause is neither
\* BadSylStructure nor UnknownSymbol
C7_Original ==
  (Done /\ word_desc = <<>>) =>
    (result.tag = "Err"
       /\ result.kind \notin {"BadSylStructure", "UnknownSymbol"})

\* C7: the empty description gives no Word but an error of the BadSylStructure
\* kind whose message "empty string" no other description gets
C7_EmptyDescription ==
  /\ (Done /\ word_desc = <<>>) =>
       /\ result.tag = "Err"
       /\ result.kind = "BadSylStructure"
       /\ result.reason = "empty string"
  /\ (Done /\ result.reason = "empty string") => word_desc = <<>>

\* the call on the empty description has returned
C7_Witness ==
  /\ Done
  /\ word_desc = <<>>
  /\ result.tag = "Err"
  /\ calls = <<>>

\* C8 as stated: a description ending in the tie-bar fails with an error of
\* the BadSylStructure kind
C8_Original ==
  (Done /\ word_desc # <<>> /\ word_desc[Len(word_desc)] = TieBar) =>
    (result.tag = "Err" /\ result.kind = "BadSylStructure")

\* C8: a description ending in a tie-bar that directly follows the first
\* character of a symbol unit fails with an error of the BadWordDesc kind,
\* not the BadSylStructure kind of a missing or duplicate nucleus, before any
\* lookup; no other description gets that kind
C8_DanglingConnector ==
  /\ (Done /\ ConnectorDangles(word_desc)) =>
       /\ result.tag = "Err"
       /\ result.kind = "BadWordDesc"
       /\ calls = <<>>
  /\ (Done /\ result.kind = "BadWordDesc") => ConnectorDangles(word_desc)

\* the tie-bar dangles after a syllable has been closed
C8_Witness ==
  /\ Done
  /\ ConnectorDangles(word_desc)
  /\ syllables_as_symbols # <<>>
  /\ result.kind = "BadWordDesc"

\* C9: in an accepted word every nucleus is a vowel, no phoneme of an onset
\* or coda is, so exactly one phoneme of each syllable is syllabic
C9_OneVowelPerSyllable ==
  Accepted =>
    \A i \in 1..Len(result.word) :
      LET syl == result.word[i]
      IN /\ is_vowel(syl.nucleus)
         /\ \A j \in 1..Len(syl.onset) : ~is_vowel(syl.onset[j])
         /\ \A j \in 1..Len(syl.coda) : ~is_vowel(syl.coda[j])
         /\ Cardinality({j \in 1..Len(syl_phonemes(syl)) :
                           is_vowel(syl_phonemes(syl)[j])}) = 1

\* an accepted syllable with a disegment nucleus after an onset, and another
\* with a coda
C9_Witness ==
  /\ Accepted
  /\ pass = 1
  /\ \E i \in 1..Len(result.word) :
       /\ result.word[i].nucleus[1] = "Disegment"
       /\ result.word[i].onset # <<>>
  /\ \E i \in 1..Len(result.word) : result.word[i].coda # <<>>

\* C10: the rendering of an accepted word of two or more syllables is
\* accepted again and parses to as many syllables and the same phonemes
C10_RoundTrip ==
  (pass = 2 /\ Done /\ Len(first_word) >= 2) =>
    /\ result.tag = "Ok"
    /\ Len(result.word) = Len(first_word)
    /\ phonemes(result.word) = phonemes(first_word)

(***************************************************************************)
(* Properties of Word::symbols and Word::stresses                          *)
(***************************************************************************)
\* the IPA mark that stands for a stored stress, if one does
MarkOf(st) ==
  IF st = Some("Stressed") THEN <<PrimaryMark>>
  ELSE IF st = Some("SecondaryStress") THEN <<SecondaryMark>>
       ELSE <<>>

\* what is written between two syllables, given the stress of the second
SeparatorOf(st) == IF MarkOf(st) = <<>> THEN <<Dot>> ELSE MarkOf(st)

RECURSIVE Later(_, _)
\* syllables i, i+1, ... of w, each after its separator
Later(w, i) ==
  IF i > Len(w) THEN <<>>
  ELSE SeparatorOf(w[i].stress) \o syl_symbols(w[i]) \o Later(w, i + 1)

\* how many characters of s are in set
CountIn(s, set) == Cardinality({i \in 1..Len(s) : s[i] \in set})

\* C11: Word::symbols writes the first syllable after its stress mark when
\* its stress is Stressed or SecondaryStress and after nothing otherwise,
\* writes before every later syllable exactly one separator (that syllable's
\* stress mark if it has one, '.' otherwise), renders the empty Word as the
\* empty string, and writes exactly n-1 separators after the text of the
\* first of n >= 1 syllables.
C11_SymbolsSeparators ==
  fn_name = "symbols" =>
    LET w == fn_args
    IN IF w = <<>> THEN fn_ret = <<>>
       ELSE LET first == MarkOf(w[1].stress) \o syl_symbols(w[1])
            IN /\ fn_ret = first \o Later(w, 2)
               /\ CountIn(SubSeq(fn_ret, Len(first) + 1, Len(fn_ret)),
                          StressMarks) = Len(w) - 1

\* a rendered Word of three syllables: the first stressed, the second with
\* no stored stress, the third with secondary stress
C11_Witness ==
  /\ fn_name = "symbols"
  /\ Len(fn_args) = 3
  /\ fn_args[1].stress = Some("Stressed")
  /\ fn_args[2].stress = None
  /\ fn_args[3].stress = Some("SecondaryStress")
  /\ fn_ret[1] = PrimaryMark

\* C12: for any Word of exactly one syllable, Word::symbols contains no
\* stress mark and Word::stresses is empty, whatever stress the syllable
\* stores.
C12_SingleSyllableSuppressed ==
  Len(fn_args) = 1 =>
    /\ fn_name = "symbols" =>
         CountIn(fn_ret, {PrimaryMark, SecondaryMark}) = 0
    /\ fn_name = "stresses" => fn_ret = <<>>

(***************************************************************************)
(* Properties of the classifiers and of feature_set                        *)
(***************************************************************************)
f64_one == <<1, 1>>
f64_zero == <<0, 1>>

\* x <= y on f64, false when either is NaN
f64_le(x, y) == x # NaN /\ y # NaN /\ x[1] * y[2] <= y[1] * x[2]

IsDisegment(p) == p[1] = "Disegment"

\* the two segments of a disegment, each as a phoneme of its own
First(p) == Monosegment(p[2])
Second(p) == Monosegment(p[3])

\* the classifiers written with any_segment
EitherClassifiers ==
  {"is_vowel", "is_semivowel", "is_voiced", "is_stop", "is_fricative",
   "is_approximant", "is_nasal", "is_lateral", "is_high_vowel",
   "is_low_vowel", "is_mid_vowel"}

\* C13 as stated: for every Disegment(a, b) and every classifier P other
\* than is_affricate, is_consonant included, P(Disegment(a, b)) equals
\* P(Monosegment(a)) OR P(Monosegment(b)).
C13_Original ==
  (fn_name = "classify" /\ IsDisegment(fn_args)) =>
    \A P \in EitherClassifiers \cup {"is_consonant"} :
      fn_ret[P] = (classify(First(fn_args))[P] \/ classify(Second(fn_args))[P])

\* C13: for every Disegment(a, b), each of is_vowel, is_semivowel,
\* is_voiced, is_stop, is_fricative, is_approximant, is_nasal, is_lateral,
\* is_high_vowel, is_low_vowel and is_mid_vowel holds of the disegment
\* exactly when it holds of Monosegment(a) or of Monosegment(b), while
\* is_consonant holds exactly when it holds of both.
C13_EitherSegment ==
  (fn_name = "classify" /\ IsDisegment(fn_args)) =>
    /\ \A P \in EitherClassifiers :
         fn_ret[P] = (classify(First(fn_args))[P]
                        \/ classify(Second(fn_args))[P])
    /\ fn_ret.is_consonant = (is_consonant(First(fn_args))
                                /\ is_consonant(Second(fn_args)))
    /\ fn_ret.is_consonant = ~fn_ret.is_vowel

\* a classified disegment of a consonant and a vowel
C13_Witness ==
  /\ fn_name = "classify"
  /\ IsDisegment(fn_args)
  /\ is_consonant(First(fn_args))
  /\ is_vowel(Second(fn_args))
  /\ fn_ret.is_vowel
  /\ ~fn_ret.is_consonant

\* C14: is_affricate(p) holds exactly when p is Disegment(a, b) with
\* is_stop(Monosegment(a)) and is_fricative(Monosegment(b)); it is false of
\* every Monosegment, and when it holds of Disegment(a, b) it is false of
\* Disegment(b, a).
C14_AffricateOrdered ==
  fn_name = "classify" =>
    /\ fn_ret.is_affricate =
         (/\ IsDisegment(fn_args)
          /\ is_stop(First(fn_args))
          /\ is_fricative(Second(fn_args)))
    /\ ~IsDisegment(fn_args) => ~fn_ret.is_affricate
    /\ (IsDisegment(fn_args) /\ fn_ret.is_affricate) =>
         ~is_affricate(Disegment(fn_args[3], fn_args[2]))

\* a classified affricate: a stop, then a fricative
C14_Witness ==
  /\ fn_name = "classify"
  /\ IsDisegment(fn_args)
  /\ fn_ret.is_affricate
  /\ stop_seg(fn_args[2])
  /\ fricative_seg(fn_args[3])

\* C15: feature_set(Disegment(a, b)) is feature_set(Monosegment(a)) united
\* with feature_set(Monosegment(b)), plus DelRel exactly when the disegment
\* is an affricate; DelRel is in feature_set(p) if and only if
\* is_affricate(p); and similarity([Disegment(a, b)], [Monosegment(a),
\* Monosegment(b)]) is 1.0 exactly when the disegment is not an affricate.
C15_FeatureSetOfDisegment ==
  /\ fn_name = "feature_set" =>
       /\ ("DelRel" \in fn_ret) = is_affricate(fn_args)
       /\ IsDisegment(fn_args) =>
            fn_ret = feature_set(First(fn_args))
                       \cup feature_set(Second(fn_args))
                       \cup (IF is_affricate(fn_args) THEN {"DelRel"}
                             ELSE {})
  /\ (fn_name = "similarity" /\ IsDisegment(fn_args)) =>
       (f64_eq(fn_ret, f64_one) = ~is_affricate(fn_args))

\* an affricate compared with its two segments: DelRel sets them apart
C15_Witness ==
  /\ fn_name = "similarity"
  /\ IsDisegment(fn_args)
  /\ is_affricate(fn_args)
  /\ "DelRel" \in feature_set(fn_args)
  /\ ~f64_eq(fn_ret, f64_one)

(***************************************************************************)
(* Properties of similarity, rhyme, assonance and alliteration             *)
(***************************************************************************)
\* two phoneme collections were drawn and compared
Compared == fn_name = "similarity" /\ fn_args[1] = "phonemes"

\* two syllables were drawn and measured by the function named name
Measured(name) == fn_name = name /\ fn_args[1] = "syllables"

\* the tokens of the three root features
RootTokens ==
  {"PlusSyllabic", "MinusSyllabic", "PlusSonorant", "MinusSonorant",
   "PlusConsonantal", "MinusConsonantal"}

\* the phonemes that occur in a collection
Range(c) == {c[i] : i \in 1..Len(c)}

\* C16: for all non-empty phoneme collections a and b, similarity(a, b)
\* lies in [0.0, 1.0]: every phoneme contributes at least its three root
\* tokens, so the union of the gathered sets is not empty, and the
\* intersection is never larger than the union.
C16_SimilarityBounded ==
  (Compared /\ fn_args[2] # <<>> /\ fn_args[3] # <<>>) =>
    LET fs1 == gather_features(fn_args[2])
        fs2 == gather_features(fn_args[3])
    IN /\ f64_le(f64_zero, fn_ret)
       /\ f64_le(fn_ret, f64_one)
       /\ \A p \in Range(fn_args[2]) \cup Range(fn_args[3]) :
            Cardinality(feature_set(p) \cap RootTokens) >= 3
       /\ fs1 \cup fs2 # {}
       /\ Cardinality(fs1 \cap fs2) <= Cardinality(fs1 \cup fs2)

\* two non-empty collections that share some features and not all: a score
\* strictly between 0.0 and 1.0
C16_Witness ==
  /\ Compared
  /\ fn_args[2] # <<>>
  /\ fn_args[3] # <<>>
  /\ f64_le(f64_zero, fn_ret)
  /\ f64_le(fn_ret, f64_one)
  /\ ~f64_eq(fn_ret, f64_zero)
  /\ ~f64_eq(fn_ret, f64_one)

\* C17: rhyme, assonance and alliteration are symmetric for all syllables
\* and reflexive (1.0) whenever the compared part is not empty, and so is
\* similarity on non-empty collections.
C17_SymmetricReflexive ==
  /\ Measured("rhyme") =>
       /\ f64_eq(fn_ret, rhyme(fn_args[3], fn_args[2]))
       /\ fn_args[2] = fn_args[3] => f64_eq(fn_ret, f64_one)
  /\ Measured("assonance") =>
       /\ f64_eq(fn_ret, assonance(fn_args[3], fn_args[2]))
       /\ fn_args[2] = fn_args[3] => f64_eq(fn_ret, f64_one)
  /\ Measured("alliteration") =>
       /\ f64_eq(fn_ret, alliteration(fn_args[3], fn_args[2]))
       /\ (fn_args[2] = fn_args[3] /\ fn_args[2].onset # <<>>) =>
            f64_eq(fn_ret, f64_one)
  /\ (Compared /\ fn_args[2] # <<>> /\ fn_args[3] # <<>>) =>
       /\ f64_eq(fn_ret, similarity(fn_args[3], fn_args[2]))
       /\ fn_args[2] = fn_args[3] => f64_eq(fn_ret, f64_one)

\* C18: for non-empty phoneme collections a and b, similarity(a, b) is 1.0
\* if and only if the two gathered feature sets are equal, so that
\* reordering or repeating the phonemes of a side never changes the score,
\* and is 0.0 if and only if the two sets share no token.
C18_OneAndZero ==
  (Compared /\ fn_args[2] # <<>> /\ fn_args[3] # <<>>) =>
    LET fs1 == gather_features(fn_args[2])
        fs2 == gather_features(fn_args[3])
    IN /\ f64_eq(fn_ret, f64_one) = (fs1 = fs2)
       /\ f64_eq(fn_ret, f64_zero) = (fs1 \cap fs2 = {})
       /\ \A c \in Collections(MaxPhons) :
            Range(c) = Range(fn_args[2]) =>
              f64_eq(similarity(c, fn_args[3]), fn_ret)

\* a collection compared with a reordering of itself: two different
\* sequences, the same features, the score 1.0
C18_Witness ==
  /\ Compared
  /\ Len(fn_args[2]) = 2
  /\ fn_args[2][1] # fn_args[2][2]
  /\ fn_args[3] = <<fn_args[2][2], fn_args[2][1]>>
  /\ f64_eq(fn_ret, f64_one)

\* C19: similarity of two empty phoneme collections is 1.0, and so is the
\* alliteration of two syllables whose onsets are both empty; no quotient
\* with a zero-size union is evaluated.
C19_EmptyIsOne ==
  /\ (Compared /\ fn_args[2] = <<>> /\ fn_args[3] = <<>>) =>
       f64_eq(fn_ret, f64_one)
  /\ (/\ Measured("alliteration")
      /\ fn_args[2].onset = <<>>
      /\ fn_args[3].onset = <<>>) => f64_eq(fn_ret, f64_one)
  /\ fn_name \in {"similarity", "alliteration"} => fn_ret # NaN

\* C20: rhyme equals similarity of the two rhyme parts ([nucleus] ++ coda),
\* assonance similarity of the two nuclei and alliteration similarity of the
\* two onsets; so rhyme is the same for every onset and stress, assonance
\* for every onset, coda and stress, and alliteration for every nucleus,
\* coda and stress of either syllable.
C20_ComparedPartsOnly ==
  /\ Measured("rhyme") =>
       /\ f64_eq(fn_ret,
                 similarity(<<fn_args[2].nucleus>> \o fn_args[2].coda,
                            <<fn_args[3].nucleus>> \o fn_args[3].coda))
       /\ \A s \in SimSyllables :
            (s.nucleus = fn_args[2].nucleus /\ s.coda = fn_args[2].coda) =>
              /\ f64_eq(rhyme(s, fn_args[3]), fn_ret)
              /\ f64_eq(rhyme(fn_args[3], s), rhyme(fn_args[3], fn_args[2]))
  /\ Measured("assonance") =>
       /\ f64_eq(fn_ret, similarity(<<fn_args[2].nucleus>>,
                                    <<fn_args[3].nucleus>>))
       /\ \A s \in SimSyllables :
            s.nucleus = fn_args[2].nucleus =>
              /\ f64_eq(assonance(s, fn_args[3]), fn_ret)
              /\ f64_eq(assonance(fn_args[3], s),
                        assonance(fn_args[3], fn_args[2]))
  /\ Measured("alliteration") =>
       /\ f64_eq(fn_ret, similarity(fn_args[2].onset, fn_args[3].onset))
       /\ \A s \in SimSyllables :
            s.onset = fn_args[2].onset =>
              /\ f64_eq(alliteration(s, fn_args[3]), fn_ret)
              /\ f64_eq(alliteration(fn_args[3], s),
                        alliteration(fn_args[3], fn_args[2]))

\* ---- builders ---------------------------------------------------------
\* the fields of a Segment: the leaves of the feature geometry and the
\* presence of each optional group
Fields ==
  {"symbol", "consonantal", "sonorant", "syllabic", "nasal", "lateral",
   "rhotic", "strident", "continuant", "place", "labial", "round", "coronal",
   "anterior", "distrib", "dorsal", "high", "low", "back", "pharyngeal",
   "advanced_tongue_root", "laryngeal", "spread_glottis",
   "constricted_glottis", "voice"}

\* the field named field of an optional group, None when the group is absent
Under(group, field) == IF is_none(group) THEN None ELSE unwrap(group)[field]

\* the value of a field of seg; for a group, whether it is present
FieldOf(seg, f) ==
  LET auto == seg.autosegmental_features
  IN CASE f = "symbol" -> seg.symbol
       [] f \in {"consonantal", "sonorant", "syllabic"} -> seg.root_features[f]
       [] f \in {"nasal", "lateral", "rhotic", "strident", "continuant"} ->
            auto[f]
       [] f \in {"place", "laryngeal"} -> is_some(auto[f])
       [] f \in {"labial", "coronal", "dorsal", "pharyngeal"} ->
            is_some(Under(auto.place, f))
       [] f = "round" -> Under(Under(auto.place, "labial"), f)
       [] f \in {"anterior", "distrib"} ->
            Under(Under(auto.place, "coronal"), f)
       [] f \in {"high", "low", "back"} ->
            Under(Under(auto.place, "dorsal"), f)
       [] f = "advanced_tongue_root" ->
            Under(Under(auto.place, "pharyngeal"), f)
       [] f \in {"spread_glottis", "constricted_glottis", "voice"} ->
            Under(auto.laryngeal, f)

\* two segments that differ in every field: nothing marked and no group
\* present, everything marked and every group present
Bare == mk_base("x")
Full ==
  [root_features |-> [consonantal |-> Marked, sonorant |-> Marked,
                      syllabic |-> Marked],
   autosegmental_features |->
     [nasal |-> Some(Marked), lateral |-> Some(Marked),
      rhotic |-> Some(Marked), strident |-> Some(Marked),
      continuant |-> Some(Marked),
      place |-> Some([labial |-> Some([round |-> Some(Marked)]),
                      coronal |-> Some([anterior |-> Some(Marked),
                                        distrib |-> Some(Marked)]),
                      dorsal |-> Some([high |-> Some(Marked),
                                       low |-> Some(Marked),
                                       back |-> Some(Marked)]),
                      pharyngeal |->
                        Some([advanced_tongue_root |-> Some(Marked)])]),
      laryngeal |-> Some([spread_glottis |-> Some(Marked),
                          constricted_glottis |-> Some(Marked),
                          voice |-> Some(Marked)])],
   symbol |-> "y"]

\* builder b writes field f: it leaves the same value there whatever the
\* segment held before
Writes(b, f) ==
  FieldOf(ApplyBuilder(b, Bare), f) = FieldOf(ApplyBuilder(b, Full), f)

Written(b, f) == FieldOf(ApplyBuilder(b, Bare), f)

\* the base segment each constructor starts from, as the interface states it
BaseOf(constructor, sym) ==
  [root_features |->
     [consonantal |-> IF constructor = "consonant" THEN Marked ELSE Unmarked,
      sonorant |-> IF constructor = "vowel" THEN Marked ELSE Unmarked,
      syllabic |-> IF constructor = "vowel" THEN Marked ELSE Unmarked],
   autosegmental_features |->
     [nasal |-> None, lateral |-> None, rhotic |-> None, strident |-> None,
      continuant |-> None, place |-> None, laryngeal |-> None],
   symbol |-> sym]

Built == fn_name \in {"segment", "consonant", "vowel"}

\* the index of the last builder of bs that writes f, 0 if none does
LastWriter(bs, f) ==
  IF \E i \in 1..Len(bs) : Writes(bs[i], f)
  THEN CHOOSE i \in 1..Len(bs) :
         Writes(bs[i], f) /\ \A j \in (i + 1)..Len(bs) : ~Writes(bs[j], f)
  ELSE 0

\* C21: segment, consonant and vowel apply the builders in list order: each
\* field of the result holds what the last builder that writes it wrote, and
\* the value of the base when no builder writes it; with no builders the
\* result is the base (root features all Unmarked for segment, consonantal
\* Marked for consonant, sonorant and syllabic Marked for vowel, every
\* autosegmental feature absent)
C21_BuildersInOrder ==
  Built =>
    LET bs == fn_args[1]
        base == BaseOf(fn_name, fn_args[2])
    IN /\ bs = <<>> => fn_ret = base
       /\ \A f \in Fields :
            FieldOf(fn_ret, f) =
              IF LastWriter(bs, f) = 0 THEN FieldOf(base, f)
              ELSE Written(bs[LastWriter(bs, f)], f)

\* two builders wrote different values to one field
C21_Witness ==
  /\ Built
  /\ Len(fn_args[1]) = 2
  /\ \E f \in Fields :
       /\ Writes(fn_args[1][1], f)
       /\ Writes(fn_args[1][2], f)
       /\ Written(fn_args[1][1], f) # Written(fn_args[1][2], f)
       /\ FieldOf(fn_ret, f) = Written(fn_args[1][2], f)

\* ---- builders/words.rs: order of the errors, lookups, termination ------
\* the accent given to this call resolves unit, and to a vowel
Resolves(unit) == is_some(accent_call(unit))
ResolvesToVowel(unit) ==
  Resolves(unit) /\ is_vowel(unwrap(accent_call(unit)))

\* the defect of the unit at index j of units, "" if it has none
UnitDefect(units, j) ==
  IF ~Resolves(units[j]) THEN "not recognized in accent"
  ELSE IF /\ ResolvesToVowel(units[j])
          /\ \E i \in 1..(j - 1) : ResolvesToVowel(units[i])
       THEN "two phonemes in syl"
       ELSE ""

\* the leftmost defect of a scanned syllable, "" if it has none; the missing
\* nucleus of a syllable is found where the syllable is closed
SylDefect(syl, closed) ==
  LET units == UnitsOf(syl)
      bad == {j \in 1..Len(units) : UnitDefect(units, j) # ""}
  IN IF syl = <<>> \/ Head(syl) \notin {<<d>> : d \in StressDigits}
     THEN "no stress information for syllable"
     ELSE IF bad # {}
          THEN UnitDefect(units, CHOOSE j \in bad : \A k \in bad : j <= k)
          ELSE IF closed /\ \A j \in 1..Len(units) : ~ResolvesToVowel(units[j])
               THEN "no nucleus in syllable"
               ELSE ""

\* the scanned syllable at index i was closed by the scan
Closed(i) ==
  ~(result.tag = "Err" /\ result.kind = "BadWordDesc" /\ i = Len(Scanned))

DefectiveSyllables ==
  {i \in 1..Len(Scanned) : SylDefect(Scanned[i], Closed(i)) # ""}

\* the defect that stands leftmost in the description, a tie-bar dangling at
\* its end being the rightmost
LeftmostDefect ==
  IF word_desc = <<>> THEN "empty string"
  ELSE IF DefectiveSyllables # {}
       THEN LET i == CHOOSE i \in DefectiveSyllables :
                       \A k \in DefectiveSyllables : i <= k
            IN SylDefect(Scanned[i], Closed(i))
       ELSE IF ConnectorDangles(word_desc)
            THEN "connector u/0361 given without following symbol"
            ELSE ""

\* C22 as stated: the error returned is the one for the leftmost defect; in
\* particular no later defect is reported in place of an unknown symbol or a
\* duplicate nucleus that stands leftmost
C22_Original ==
  (Failed /\ LeftmostDefect \in {"not recognized in accent",
                                  "two phonemes in syl"}) =>
    result.reason = LeftmostDefect

\* C22: a tie-bar left dangling at the end of the description is reported
\* whatever defects stand before it (the scan of split_word_desc ends before
\* the first lookup); for every other description the error returned is the
\* one for the leftmost defect in scan order, and a description without
\* defect is accepted
C22_FirstFailure ==
  Done =>
    IF ConnectorDangles(word_desc)
    THEN /\ result.tag = "Err"
         /\ result.reason = "connector u/0361 given without following symbol"
    ELSE /\ Accepted <=> LeftmostDefect = ""
         /\ Failed => result.reason = LeftmostDefect

\* an unknown symbol or a duplicate nucleus was reported and a later syllable
\* has a defect of its own
C22_Witness ==
  /\ Failed
  /\ ~ConnectorDangles(word_desc)
  /\ result.reason \in {"not recognized in accent", "two phonemes in syl"}
  /\ Cardinality(DefectiveSyllables) >= 2

RECURSIVE UnitDelimiters(_, _)
\* reading symbol units from index at on: the number of delimiters that are
\* read as a unit of their own, not as the character a tie-bar joins to the
\* one before it
UnitDelimiters(desc, at) ==
  IF at >= Len(desc) THEN 0
  ELSE (IF desc[at + 1] \in Delimiters THEN 1 ELSE 0)
       + (IF at + 1 < Len(desc) /\ desc[at + 2] = TieBar
          THEN UnitDelimiters(desc, at + 3)
          ELSE IF at + 1 < Len(desc) /\ desc[at + 2] = RhoticHook
               THEN UnitDelimiters(desc, at + 2)
               ELSE UnitDelimiters(desc, at + 1))

\* the syllables a description opens: one for its start and one for each
\* later delimiter read as a unit
OpenedSyllables(desc) ==
  1 + UnitDelimiters(desc, IF desc[1] \in Delimiters THEN 1 ELSE 0)

\* a delimiter stands directly after a tie-bar
DelimiterAfterTieBar(desc) ==
  \E i \in 1..(Len(desc) - 1) : desc[i] = TieBar /\ desc[i + 1] \in Delimiters

\* split_word_desc has returned Ok
SplitReturned ==
  \/ pc \in {"syl_start", "sym_loop"}
  \/ /\ Done
     /\ word_desc # <<>>
     /\ ~(result.tag = "Err" /\ result.kind = "BadWordDesc")

\* C23 as stated: an accepted word has as many syllables as the description
\* has delimiters, plus one if it does not begin with a delimiter
C23_Original ==
  Accepted => Len(result.word) = Len(Openers(word_desc))

\* C23: every stress mark or digit that is read as a unit of its own closes
\* the current syllable and opens a new one; a delimiter directly after a
\* tie-bar that joins it to the character before is part of that lookup key
\* and opens no syllable; for any accent an accepted word has as many
\* syllables as the description has delimiters read as units, plus one if it
\* does not begin with a delimiter
C23_UnitDelimiters ==
  /\ SplitReturned =>
       Len(syllables_as_symbols) = OpenedSyllables(word_desc)
  /\ Accepted => Len(result.word) = OpenedSyllables(word_desc)
  /\ (Accepted /\ ~DelimiterAfterTieBar(word_desc)) =>
       Len(result.word) = Len(Openers(word_desc))

\* an accepted description with a delimiter directly after a tie-bar
C23_Witness ==
  /\ Accepted
  /\ DelimiterAfterTieBar(word_desc)

\* the number of characters of the unit that starts at index at + 1 of desc:
\* the character, and what a tie-bar or a rhotic hook after it joins to it
UnitWidth(desc, at) ==
  IF at + 1 < Len(desc) /\ desc[at + 2] = TieBar THEN 3
  ELSE IF at + 1 < Len(desc) /\ desc[at + 2] = RhoticHook THEN 2
       ELSE 1

RECURSIVE KeysFrom(_, _)
\* reading symbol units from index at on: the units that do not start with a
\* delimiter, in the order of the description
KeysFrom(desc, at) ==
  IF at >= Len(desc) THEN <<>>
  ELSE LET last == at + UnitWidth(desc, at)
       IN (IF desc[at + 1] \in Delimiters \/ last > Len(desc) THEN <<>>
           ELSE <<SubSeq(desc, at + 1, last)>>)
          \o KeysFrom(desc, last)

\* the lookup keys of a description
ExpectedKeys(desc) ==
  IF desc = <<>> THEN <<>>
  ELSE KeysFrom(desc, IF desc[1] \in Delimiters THEN 1 ELSE 0)

\* the keys the accent has been called with
Called == {calls[k] : k \in 1..Len(calls)}

\* a character that is no stress delimiter and no combining character
Plain(c) == c \notin Delimiters \cup {TieBar, RhoticHook}

\* the combining characters of desc that are part of no such sequence: no
\* plain character stands before them, or a tie-bar ends the description
FreeCombining(desc) ==
  {j \in 1..Len(desc) :
     /\ desc[j] \in {TieBar, RhoticHook}
     /\ \/ j = 1
        \/ ~Plain(desc[j - 1])
        \/ (desc[j] = TieBar /\ j = Len(desc))}

\* the calls made with a combining character on its own
LoneCombining ==
  {k \in 1..Len(calls) : calls[k] \in {<<TieBar>>, <<RhoticHook>>}}

\* C24 as stated: wherever a character is followed by a tie-bar and a second
\* character, or by a rhotic hook, an accepted parse has looked up the
\* combined key, and the combining character after a character is never
\* looked up on its own
C24_Original ==
  Accepted =>
    /\ \A i \in 1..(Len(word_desc) - 1) :
         /\ (/\ Plain(word_desc[i])
             /\ word_desc[i + 1] = TieBar
             /\ i + 2 <= Len(word_desc)) =>
              SubSeq(word_desc, i, i + 2) \in Called
         /\ (Plain(word_desc[i]) /\ word_desc[i + 1] = RhoticHook) =>
              SubSeq(word_desc, i, i + 1) \in Called
    /\ Cardinality(LoneCombining) <= Cardinality(FreeCombining(word_desc))

\* C24: a character that starts a symbol unit and is no stress mark or
\* digit, followed by a tie-bar and a second character, is resolved by one
\* lookup with the three-codepoint key; followed by a rhotic hook, by one
\* lookup with the two-codepoint key: the lookups of an accepted parse are
\* the units of the description, one call each and nothing else
C24_CombinedKeys ==
  Accepted => calls = ExpectedKeys(word_desc)

\* an accepted parse that looked up a three-codepoint key
C24_Witness ==
  /\ Accepted
  /\ \E k \in 1..Len(calls) : Len(calls[k]) = 3
  /\ \E k \in 1..Len(calls) : Len(calls[k]) = 1

\* C25: the accent is called at most once per symbol unit, in the order of
\* the description, never with a key that starts with a stress delimiter; a
\* call that returns None is the last call and ends the parse with the
\* UnknownSymbol error, a duplicate nucleus is reported at the call that
\* resolved the second vowel, and every call is made before any error has
\* been returned
C25_LookupDiscipline ==
  /\ [](/\ Len(calls) <= Len(ExpectedKeys(word_desc))
        /\ calls = SubSeq(ExpectedKeys(word_desc), 1, Len(calls))
        /\ \A k \in 1..Len(calls) :
             /\ Head(calls[k]) \notin Delimiters
             /\ ~Resolves(calls[k]) =>
                  (k = Len(calls) /\ Failed /\ result.kind = "UnknownSymbol")
        /\ (Failed /\ result.reason = "two phonemes in syl") =>
             (calls # <<>> /\ ResolvesToVowel(calls[Len(calls)])))
  /\ [][calls' # calls =>
          /\ result = NoResult
          /\ Len(calls') = Len(calls) + 1
          /\ \A k \in 1..Len(calls) : Resolves(calls[k])]_vars

\* a parse was ended by a duplicate nucleus with symbols left to look up
C25_Witness ==
  /\ Failed
  /\ result.reason = "two phonemes in syl"
  /\ Len(calls) >= 2
  /\ Len(calls) < Len(ExpectedKeys(word_desc))

\* C26: from_accent terminates for every description and every accent: each
\* iteration of the scan consumes at least one character and never reads
\* past the end, each pass of the loop over the symbols takes one symbol and
\* each pass of the loop over the syllables one syllable, and the call ends
\* with exactly one of Ok(Word) and Err
C26_Terminates ==
  /\ <>Done
  /\ [](Done <=> result.tag \in {"Ok", "Err"})
  /\ [](pc # "panic")
  /\ [][/\ pc = "split_loop" =>
            IF symbol_iter < Len(word_desc)
            THEN symbol_iter < symbol_iter' /\ symbol_iter' <= Len(word_desc)
            ELSE pc' = "syl_start"
        /\ pc = "sym_loop" =>
            IF syl_as_symbols # <<>>
            THEN Len(syl_as_symbols') = Len(syl_as_symbols) - 1
            ELSE pc' \in {"syl_start", "done"}
        /\ pc = "syl_start" =>
            \/ (pc' = "done" /\ result'.tag = "Ok")
            \/ Len(syls_as_symbols') = Len(syls_as_symbols) - 1
        /\ pc # "done"]_vars

\* a call has ended after more than one pass of each loop
C26_Witness ==
  /\ Done
  /\ symbol_iter >= 3
  /\ Len(calls) >= 2
  /\ Len(syllables_as_symbols) >= 2

\* C29: from_accent never panics: the scan iterator is never advanced past
\* the end of the description, the syllable the scan has open and every
\* symbol list it has closed hold at least the stress symbol, so remove(0)
\* is defined for each syllable from_accent takes
C29_NeverPanics ==
  /\ pc # "panic"
  /\ symbol_iter <= Len(word_desc)
  /\ pc = "split_loop" => current_syllable # <<>>
  /\ \A i \in 1..Len(syllables_as_symbols) : syllables_as_symbols[i] # <<>>
  /\ \A i \in 1..Len(syls_as_symbols) : syls_as_symbols[i] # <<>>

\* remove(0) has emptied the symbol list of a syllable that a delimiter at
\* the end of the description had opened
C29_Witness ==
  /\ pc = "sym_loop"
  /\ syl_as_symbols = <<>>
  /\ calls # <<>>
  /\ syls_as_symbols = <<>>
  /\ Len(syllables_as_symbols) >= 2
  /\ Len(syllables_as_symbols[Len(syllables_as_symbols)]) = 1
  /\ word_desc[Len(word_desc)] \in Delimiters

\* C27: every semivowel is a consonant: for every phoneme p, Monosegment
\* or Disegment, is_semivowel(p) implies is_consonant(p) and therefore not
\* is_vowel(p)
C27_SemivowelIsConsonant ==
  fn_name = "classify" =>
    (fn_ret.is_semivowel => fn_ret.is_consonant /\ ~fn_ret.is_vowel)

\* C28: for a Monosegment the manner classes are fixed by sonorant,
\* syllabic and continuant alone: is_stop iff sonorant is Unmarked and
\* continuant is present and Unmarked, is_fricative iff sonorant is
\* Unmarked and continuant is present and Marked, is_approximant iff
\* sonorant is Marked, syllabic is Unmarked and continuant is present and
\* Marked; with continuant absent none of the three holds, and no
\* Monosegment satisfies two of them
C28_MannerClasses ==
  (fn_name = "classify" /\ ~IsDisegment(fn_args)) =>
    LET root == fn_args[2].root_features
        continuant == fn_args[2].autosegmental_features.continuant
        manners == {P \in {"is_stop", "is_fricative", "is_approximant"} :
                      fn_ret[P]}
    IN /\ fn_ret.is_stop <=>
            root.sonorant = Unmarked /\ continuant = Some(Unmarked)
       /\ fn_ret.is_fricative <=>
            root.sonorant = Unmarked /\ continuant = Some(Marked)
       /\ fn_ret.is_approximant <=>
            /\ root.sonorant = Marked
            /\ root.syllabic = Unmarked
            /\ continuant = Some(Marked)
       /\ continuant = None => manners = {}
       /\ Cardinality(manners) <= 1

\* a classified monosegment that is -sonorant with continuant absent and
\* belongs to no manner class
C28_Witness ==
  /\ fn_name = "classify"
  /\ ~IsDisegment(fn_args)
  /\ fn_args[2].root_features.sonorant = Unmarked
  /\ fn_args[2].autosegmental_features.continuant = None
  /\ ~fn_ret.is_stop
  /\ ~fn_ret.is_fricative
  /\ ~fn_ret.is_approximant

\* the binary features of a segment and the group each one belongs to
\* ("" for a feature that stands outside every group)
BinaryParents ==
  [Syllabic |-> "", Sonorant |-> "", Consonantal |-> "", Continuant |-> "",
   Strident |-> "", Anterior |-> "Coronal", Distrib |-> "Coronal",
   High |-> "Dorsal", Low |-> "Dorsal", Back |-> "Dorsal",
   AdvancedTongueRoot |-> "Pharyngeal", Voice |-> "Laryngeal"]

\* the unary features that belong to a group
UnaryParents ==
  [Round |-> "Labial", SpreadGlottis |-> "Laryngeal",
   ConstrictedGlottis |-> "Laryngeal"]

\* the group or feature of seg that a token name stands for, as an Option
Holder(seg, name) ==
  LET auto == seg.autosegmental_features
      group(g) == place_group(seg, g)
      in_group(g, field) == IF is_none(g) THEN None ELSE unwrap(g)[field]
  IN CASE name = "Labial" -> group("labial")
       [] name = "Coronal" -> group("coronal")
       [] name = "Dorsal" -> group("dorsal")
       [] name = "Pharyngeal" -> group("pharyngeal")
       [] name = "Laryngeal" -> auto.laryngeal
       [] name = "Round" -> in_group(group("labial"), "round")
       [] name = "Anterior" -> in_group(group("coronal"), "anterior")
       [] name = "Distrib" -> in_group(group("coronal"), "distrib")
       [] name = "High" -> in_group(group("dorsal"), "high")
       [] name = "Low" -> in_group(group("dorsal"), "low")
       [] name = "Back" -> in_group(group("dorsal"), "back")
       [] name = "AdvancedTongueRoot" ->
            in_group(group("pharyngeal"), "advanced_tongue_root")
       [] name = "Voice" -> in_group(auto.laryngeal, "voice")
       [] name = "SpreadGlottis" ->
            in_group(auto.laryngeal, "spread_glottis")
       [] name = "ConstrictedGlottis" ->
            in_group(auto.laryngeal, "constricted_glottis")
       [] name = "Continuant" -> auto.continuant
       [] name = "Strident" -> auto.strident
       [] name = "Nasal" -> auto.nasal
       [] name = "Lateral" -> auto.lateral
       [] name = "Rhotic" -> auto.rhotic

\* C30: for every Monosegment, feature_set holds exactly one of the Plus and
\* Minus tokens of each of syllabic, sonorant and consonantal (so at least
\* three tokens), never both polarities of a binary feature, a dependent
\* token only together with the token of its parent group, and no token for
\* a feature or group that is absent
C30_FeatureSetShape ==
  (fn_name = "feature_set" /\ ~IsDisegment(fn_args)) =>
    LET seg == fn_args[2]
        plus(b) == ("Plus" \o b) \in fn_ret
        minus(b) == ("Minus" \o b) \in fn_ret
    IN /\ \A b \in {"Syllabic", "Sonorant", "Consonantal"} :
            plus(b) # minus(b)
       /\ Cardinality(fn_ret) >= 3
       /\ \A b \in DOMAIN BinaryParents :
            /\ ~(plus(b) /\ minus(b))
            /\ (plus(b) \/ minus(b)) /\ BinaryParents[b] # "" =>
                 BinaryParents[b] \in fn_ret
       /\ \A u \in DOMAIN UnaryParents :
            u \in fn_ret => UnaryParents[u] \in fn_ret
       /\ \A b \in DOMAIN BinaryParents \ {"Syllabic", "Sonorant",
                                            "Consonantal"} :
            is_none(Holder(seg, b)) => ~plus(b) /\ ~minus(b)
       /\ \A u \in DOMAIN UnaryParents \cup
                      {"Nasal", "Lateral", "Rhotic", "Labial", "Coronal",
                       "Dorsal", "Pharyngeal", "Laryngeal"} :
            is_none(Holder(seg, u)) => u \notin fn_ret

\* the feature set of a monosegment whose laryngeal group is present with
\* voice absent, whose labial group is rounded, and whose continuant is
\* absent
C30_Witness ==
  /\ fn_name = "feature_set"
  /\ ~IsDisegment(fn_args)
  /\ is_none(Holder(fn_args[2], "Continuant"))
  /\ is_some(Holder(fn_args[2], "Laryngeal"))
  /\ is_none(Holder(fn_args[2], "Voice"))
  /\ is_none(Holder(fn_args[2], "Back"))
  /\ {"Laryngeal", "Labial", "Round", "Dorsal", "PlusLow", "MinusHigh"}
       \subseteq fn_ret
  /\ fn_ret \cap {"PlusVoice", "MinusVoice", "PlusBack", "MinusBack",
                  "PlusContinuant", "MinusContinuant"} = {}

====
